---- MODULE Spec2Model ----
(***************************************************************************)
(* A model of libriscv's decoder cache (DecoderData, the process-wide      *)
(* handler registry, the raw and the portable serialized forms), of its    *)
(* guest page table (Memory) and of its Linux system call handlers.        *)
(***************************************************************************)
EXTENDS Integers, Sequences, FiniteSets, TLC

(* ------------------------------------------------------------------ *)
(* Bounds of the model                                                   *)
(* ------------------------------------------------------------------ *)

\* The page size in bytes, scaled down (4096 in the program).
PageSize == 4
\* The largest number n of DecoderCaches a process holds.
MaxN == 1
\* How many times a new process is started on the same file.
MaxProc == 1
\* size_t arithmetic is taken modulo SizeMod (2^64 in the program).
SizeMod == 1048576

(* ------------------------------------------------------------------ *)
(* Program constants                                                     *)
(* ------------------------------------------------------------------ *)

\* DecoderCache::DIVISOR with compressed instructions enabled.
DIVISOR == 2
\* The number of entries of instr_handlers.
HandlerSlots == 256
\* sizeof(DecoderData<W>), fixed by the static_assert of atomic_overwrite.
DescSize == 8
\* sizeof(_handler_item): two packed uint32_t.
ItemSize == 8

\* DecoderCache::SIZE
SIZE == PageSize \div DIVISOR

NULL == "nullptr"

VARIABLES
    proc,                  \* the number of the running process
    caches,                \* the process's array of DecoderCaches
    instr_handlers,        \* DecoderData::instr_handlers (bound entries only)
    handler_count,         \* DecoderData::handler_count
    handler_cache,         \* DecoderData::handler_cache
    inst_handler_mapping,  \* DecoderData::inst_handler_mapping
    file,                  \* the serialized cache on disk, and what it was made from
    last,                  \* the last operation and how it ended
    seen                   \* every <<handler, index>> a set_handler of this process wrote

dcVars == << proc, caches, instr_handlers, handler_count, handler_cache,
             inst_handler_mapping, file, last, seen >>

VARIABLES
    mem,       \* the Memory object and the Page objects it allocated
    m_binary,  \* the ELF binary the Memory was constructed with
    mlast      \* the last Memory operation and how it ended

memVars == << mem, m_binary, mlast >>

VARIABLES
    sys,       \* the Machine a system call handler works on, and the host process
    slast      \* the last system call and how it ended

sysVars == << sys, slast >>

VARIABLES
    look,      \* the ELF sections Memory::lookup reads, the address and the Callsite
    patch,     \* a descriptor that one thread patches while another dispatches it
    thr        \* the threads that construct Machines, each inside set_handler

auxVars == << look, patch, thr >>

vars == << proc, caches, instr_handlers, handler_count, handler_cache,
           inst_handler_mapping, file, last, seen, mem, m_binary, mlast,
           sys, slast, look, patch, thr >>

(* ------------------------------------------------------------------ *)
(* Helpers                                                               *)
(* ------------------------------------------------------------------ *)

\* A map with the entry k -> v inserted or assigned.
Put(f, k, v) == [x \in (DOMAIN f) \cup {k} |-> IF x = k THEN v ELSE f[x]]

EmptyMap == [x \in {} |-> 0]

\* Conversion of an int to size_t.
ToSizeT(x) == x % SizeMod

\* A uint32_t as four little-endian bytes, and back.
LE32(x) == << x % 256, (x \div 256) % 256, (x \div 65536) % 256, (x \div 16777216) % 256 >>

ReadLE32(b, off) == b[off + 1] + 256 * b[off + 2] + 65536 * b[off + 3] + 16777216 * b[off + 4]

RECURSIVE Concat(_)
Concat(ss) == IF ss = << >> THEN << >> ELSE Head(ss) \o Concat(Tail(ss))

\* Every enumeration of the finite set S without repetition.
Orderings(S) ==
    { s \in [1..Cardinality(S) -> S] : \A i, j \in 1..Cardinality(S) : i # j => s[i] # s[j] }

(* ------------------------------------------------------------------ *)
(* The instruction decoder (external): encoding -> handler               *)
(* ------------------------------------------------------------------ *)

\* The encodings the builder meets: addi, add, and a second add.
ValidEncodings == {19, 51, 307}

\* CPU<W>::decode(instr).handler: the handler is chosen by the major opcode.
Decode(e) ==
    CASE e % 128 = 19 -> "OP_IMM"
      [] e % 128 = 51 -> "OP"
      [] OTHER -> "ILLEGAL"

\* The bytecode the builder stores for an encoding.
BytecodeOf(e) == (e % 128) \div 16

(* ------------------------------------------------------------------ *)
(* DecoderData                                                           *)
(* ------------------------------------------------------------------ *)

\* A descriptor of a cache that has not been built yet.
ZeroData == [m_bytecode |-> 0, m_handler |-> 0, idxend |-> 0, icount |-> 0, instr |-> 0]

\* The registry as one value.
Registry == [ih |-> instr_handlers, count |-> handler_count,
             cache |-> handler_cache, map |-> inst_handler_mapping]

FreshRegistry == [ih |-> EmptyMap, count |-> 0, cache |-> EmptyMap, map |-> EmptyMap]

\* instr_handlers[k]
HandlerAt(ih, k) == IF k \in DOMAIN ih THEN ih[k] ELSE NULL

\* DecoderData::get_handler
get_handler(ih, d) == HandlerAt(ih, d.m_handler)

\* DecoderData::_assign_handler
_assign_handler(ih, idx, h) == Put(ih, idx, h)

\* DecoderData::handler_index_for: the index of a known handler, or the next
\* free index (the first is 1) for a new one.
handler_index_for(reg, h) ==
    IF h \in DOMAIN reg.cache
    THEN [idx |-> reg.cache[h], reg |-> reg]
    ELSE LET idx == reg.count + 1
         IN [idx |-> idx,
             reg |-> [reg EXCEPT !.ih = Put(reg.ih, idx, h),
                                 !.count = reg.count + 1,
                                 !.cache = Put(reg.cache, h, idx)]]

\* DecoderData::set_insn_handler: m_handler is a uint8_t.
set_insn_handler(d, reg, h) ==
    LET r == handler_index_for(reg, h)
    IN [d |-> [d EXCEPT !.m_handler = r.idx % 256], reg |-> r.reg]

\* A set_handler that records the encoding before it has the new index.
set_handler_stale(d, reg, h) ==
    LET r == set_insn_handler(d, [reg EXCEPT !.map = Put(reg.map, d.m_handler, d.instr)], h)
    IN r

\* DecoderData::set_handler
set_handler(d, reg, h) ==
    LET r == set_insn_handler(d, reg, h)
    IN [d |-> r.d, reg |-> [r.reg EXCEPT !.map = Put(r.reg.map, r.d.m_handler, r.d.instr)]]

\* DecoderData::set_bytecode
set_bytecode(d, num) == [d EXCEPT !.m_bytecode = num % 256]

\* DecoderData::set_invalid_handler
set_invalid_handler(d) == [d EXCEPT !.m_handler = 0]

\* The eight bytes of a descriptor in memory (little-endian host).
MemImage(d) == << d.m_bytecode, d.m_handler, d.idxend, d.icount >> \o LE32(d.instr)

\* The descriptor that the eight bytes at offset off are.
DataAt(b, off) ==
    [m_bytecode |-> b[off + 1], m_handler |-> b[off + 2], idxend |-> b[off + 3],
     icount |-> b[off + 4], instr |-> ReadLE32(b, off + 4)]

\* The memory image of an array of caches.
ImageOf(cs) == Concat([p \in 1..Len(cs) |-> Concat([i \in 1..SIZE |-> MemImage(cs[p][i])])])

\* The array of n caches that a memory image is.
CachesAt(b, n) ==
    [p \in 1..n |-> [i \in 1..SIZE |-> DataAt(b, ((p - 1) * SIZE + (i - 1)) * DescSize)]]

(* ------------------------------------------------------------------ *)
(* Serialization                                                         *)
(* ------------------------------------------------------------------ *)

NoFile == [kind |-> "none", bytes |-> << >>, n |-> 0, src |-> << >>]

\* serialize_cache_manually: eight bytes pushed per descriptor.
serialize_cache_manually(cs, n) ==
    IF n = 0 THEN << >>
    ELSE Concat([p \in 1..n |-> Concat([i \in 1..SIZE |->
            LET d == cs[p][i]
            IN << d.m_bytecode, d.m_handler, d.idxend % 256, d.icount % 256,
                  d.instr % 256, (d.instr \div 256) % 256,
                  (d.instr \div 65536) % 256, (d.instr \div 16777216) % 256 >>])])

\* The handler table serialize_whole_decoder_cache appends: the byte
\* needed_pairs and needed_pairs items, taken from the enumeration order of
\* the mapping's non-zero keys.
HandlerTable(m, order, needed) ==
    << needed % 256 >> \o
    Concat([i \in 1..needed |-> LE32(order[i]) \o LE32(m[order[i]])])

\* serialize_whole_decoder_cache, n >= 1, for one enumeration order of the
\* mapping. needed_pairs = m.size() - 1 in size_t: an empty mapping asks
\* new[] for SizeMod - 1 items, which throws; a mapping without the key 0
\* has one more non-zero key than hi_arr has items, and the loop writes past
\* the end of hi_arr (the set Outcomes holds what may follow).
SerializeOutcomes(cs, n, m) ==
    LET keys == (DOMAIN m) \ {0}
        needed == ToSizeT(Cardinality(DOMAIN m) - 1)
    IN IF Cardinality(DOMAIN m) = 0
       THEN { [ok |-> FALSE, bytes |-> << >>] }
       ELSE { [ok |-> TRUE, bytes |-> ImageOf(cs) \o HandlerTable(m, order, needed)] :
                order \in Orderings(keys) }
            \cup (IF Cardinality(keys) > needed
                  THEN { [ok |-> FALSE, bytes |-> << >>] } ELSE {})

\* serialize_whole_decoder_cache
serialize_whole_decoder_cache(cs, n, m) ==
    IF n = 0 THEN { [ok |-> TRUE, bytes |-> << >>] } ELSE SerializeOutcomes(cs, n, m)

\* The raw loader's length check: L is an int, required_size a size_t.
RawRequired(n) == ToSizeT(ToSizeT(n) * SIZE * DescSize + 1)

RawAccepts(n, L) == ~(ToSizeT(L) < RawRequired(n))

\* The handler bindings the raw loader installs from data, in order.
RECURSIVE AssignAll(_, _, _, _)
AssignAll(ih, data, off, count) ==
    IF count = 0 THEN ih
    ELSE AssignAll(_assign_handler(ih, ReadLE32(data, off), Decode(ReadLE32(data, off + 4))),
                   data, off + ItemSize, count - 1)

\* deserialize_decoder_cache (LOAD_EXP): the caches overlay data, the
\* handlers of the table are installed.
deserialize_decoder_cache(ih, data, n, L) ==
    IF ~RawAccepts(n, L)
    THEN [ok |-> FALSE, caches |-> << >>, ih |-> ih, assigned |-> 0]
    ELSE LET required == RawRequired(n)
             handler_c == data[required]
         IN [ok |-> TRUE,
             caches |-> CachesAt(data, n),
             ih |-> AssignAll(ih, data, required, handler_c),
             assigned |-> handler_c]

\* The portable loader's slot loop: every slot with a non-zero handler
\* index is rebound through decode and set_handler.
RECURSIVE LoadSlots(_, _, _, _)
LoadSlots(reg, bytes, k, total) ==
    IF k = total THEN [ds |-> << >>, reg |-> reg]
    ELSE LET d0 == DataAt(bytes, k * DescSize)
             r == IF d0.m_handler # 0 THEN set_handler(d0, reg, Decode(d0.instr))
                  ELSE [d |-> d0, reg |-> reg]
             rest == LoadSlots(r.reg, bytes, k + 1, total)
         IN [ds |-> << r.d >> \o rest.ds, reg |-> rest.reg]

\* deserialize_decoder_cache_manually
deserialize_decoder_cache_manually(reg, bytes, n) ==
    IF Len(bytes) # ToSizeT(n * SIZE * DescSize)
    THEN [ok |-> FALSE, caches |-> << >>, reg |-> reg, ds |-> << >>]
    ELSE LET r == LoadSlots(reg, bytes, 0, n * SIZE)
         IN [ok |-> TRUE,
             caches |-> [p \in 1..n |-> [i \in 1..SIZE |-> r.ds[(p - 1) * SIZE + i]]],
             reg |-> r.reg, ds |-> r.ds]

(* ------------------------------------------------------------------ *)
(* The decoder cache as a state machine                                  *)
(* ------------------------------------------------------------------ *)

Idle == [op |-> "none", ok |-> TRUE, n |-> 0, L |-> 0, kind |-> "none", assigned |-> 0]

\* What the set_handler calls that made the descriptors ds wrote.
Written(ds) == { << Decode(ds[k].instr), ds[k].m_handler >> : k \in { j \in DOMAIN ds : ds[j].m_handler # 0 } }

InitDC ==
    /\ proc = 0
    /\ \E n \in 0..MaxN : caches = [p \in 1..n |-> [i \in 1..SIZE |-> ZeroData]]
    /\ instr_handlers = EmptyMap
    /\ handler_count = 0
    /\ handler_cache = EmptyMap
    /\ inst_handler_mapping = EmptyMap
    /\ file = NoFile
    /\ last = Idle
    /\ seen = {}

SetRegistry(reg) ==
    /\ instr_handlers' = reg.ih
    /\ handler_count' = reg.count
    /\ handler_cache' = reg.cache
    /\ inst_handler_mapping' = reg.map

\* The cache builder fills slot i of cache p from the encoding e it finds
\* there: the encoding, its bytecode, the block end and its handler.
Build(p, i, e) ==
    LET d0 == [set_bytecode(caches[p][i], BytecodeOf(e))
                  EXCEPT !.instr = e, !.idxend = SIZE - i, !.icount = 0]
        r == set_handler(d0, Registry, Decode(e))
    IN /\ caches' = [caches EXCEPT ![p][i] = r.d]
       /\ SetRegistry(r.reg)
       /\ last' = Idle
       /\ seen' = seen \cup Written(<< r.d >>)
       /\ UNCHANGED << proc, file, memVars, sysVars, auxVars >>

\* serialize_whole_decoder_cache and write_vector_to_file.
SerializeRaw ==
    \E out \in serialize_whole_decoder_cache(caches, Len(caches), inst_handler_mapping) :
        /\ file' = IF out.ok
                   THEN [kind |-> "raw", bytes |-> out.bytes, n |-> Len(caches), src |-> caches]
                   ELSE file
        /\ last' = [Idle EXCEPT !.op = "ser_raw", !.ok = out.ok, !.n = Len(caches)]
        /\ UNCHANGED << proc, caches, instr_handlers, handler_count, handler_cache,
                        inst_handler_mapping, seen, memVars, sysVars, auxVars >>

\* serialize_cache_manually and write_vector_to_file.
SerializePortable ==
    /\ file' = [kind |-> "portable", bytes |-> serialize_cache_manually(caches, Len(caches)),
                n |-> Len(caches), src |-> caches]
    /\ last' = [Idle EXCEPT !.op = "ser_man", !.n = Len(caches)]
    /\ UNCHANGED << proc, caches, instr_handlers, handler_count, handler_cache,
                    inst_handler_mapping, seen, memVars, sysVars, auxVars >>

\* The lengths a caller passes for a buffer of len bytes: the true one, one
\* byte less, none, and a negative int.
Lengths(len) == {len, len - 1, 0, -1}

\* deserialize_decoder_cache on the file's bytes, for the file's n and a
\* length L. Every byte the loader reads lies inside the buffer.
DeserializeRaw(L) ==
    /\ file.kind = "raw"
    /\ RawAccepts(file.n, L) =>
          /\ Len(file.bytes) >= RawRequired(file.n)
          /\ Len(file.bytes) >= RawRequired(file.n) + file.bytes[RawRequired(file.n)] * ItemSize
    /\ LET r == deserialize_decoder_cache(instr_handlers, file.bytes, file.n, L)
       IN /\ caches' = IF r.ok THEN r.caches ELSE caches
          /\ instr_handlers' = r.ih
          /\ last' = [op |-> "de_raw", ok |-> r.ok, n |-> file.n, L |-> L, kind |-> file.kind,
                      assigned |-> r.assigned]
    /\ UNCHANGED << proc, handler_count, handler_cache, inst_handler_mapping, file, seen,
                    memVars, sysVars, auxVars >>

\* deserialize_decoder_cache_manually on the file's bytes, for some n.
DeserializePortable(n) ==
    /\ file.kind # "none"
    /\ LET r == deserialize_decoder_cache_manually(Registry, file.bytes, n)
       IN /\ caches' = IF r.ok THEN r.caches ELSE caches
          /\ SetRegistry(r.reg)
          /\ last' = [op |-> "de_man", ok |-> r.ok, n |-> n, L |-> Len(file.bytes),
                      kind |-> file.kind, assigned |-> 0]
          /\ seen' = seen \cup Written(r.ds)
    /\ UNCHANGED << proc, file, memVars, sysVars, auxVars >>

\* A new process starts: the statics are as initialized, the file remains.
Restart ==
    /\ proc < MaxProc
    /\ proc' = proc + 1
    /\ \E n \in 0..MaxN : caches' = [p \in 1..n |-> [i \in 1..SIZE |-> ZeroData]]
    /\ SetRegistry(FreshRegistry)
    /\ last' = Idle
    /\ seen' = {}
    /\ UNCHANGED << file, memVars, sysVars, auxVars >>

\* DecoderData::block_bytes, with compressed instructions enabled.
block_bytes(d) == d.idxend * DIVISOR

\* DecoderData::instruction_count, with compressed instructions enabled;
\* the bit-fields are promoted to int.
instruction_count(d) == d.idxend + 1 - d.icount

\* The descriptors of a file that some other program wrote: any handler
\* byte, a block end inside the page, any instruction count byte.
ForeignData ==
    [m_bytecode : {0}, m_handler : {1}, idxend : {0, SIZE}, icount : {0, 1},
     instr : {19}]

\* The handler tables of such a file: none, or one _handler_item with any
\* index.
ForeignTables ==
    { << >> } \cup { << [idx |-> k, instr |-> 19] >> : k \in {0, 1, HandlerSlots} }

\* A file of one cache is found on disk, in the portable form or in the raw
\* form with the handler table tab.
PutFile(kind, ds, tab) ==
    /\ file = NoFile
    /\ Len(caches) = 1
    /\ kind = "portable" => tab = << >>
    /\ LET cs == << ds >>
       IN file' = [kind |-> kind,
                   bytes |-> IF kind = "raw"
                             THEN ImageOf(cs) \o << Len(tab) >> \o
                                  Concat([k \in 1..Len(tab) |->
                                             LE32(tab[k].idx) \o LE32(tab[k].instr)])
                             ELSE serialize_cache_manually(cs, 1),
                   n |-> 1, src |-> << >>]
    /\ last' = Idle
    /\ UNCHANGED << proc, caches, instr_handlers, handler_count, handler_cache,
                    inst_handler_mapping, seen, memVars, sysVars, auxVars >>

\* A process builds its cache or loads a file it finds.
NextLoad ==
    \/ \E p \in 1..Len(caches), i \in 1..SIZE, e \in ValidEncodings : Build(p, i, e)
    \/ \E kind \in {"raw", "portable"}, ds \in [1..SIZE -> ForeignData], tab \in ForeignTables :
           PutFile(kind, ds, tab)
    \/ \E L \in Lengths(Len(file.bytes)) : DeserializeRaw(L)
    \/ DeserializePortable(1)

NextDC ==
    \/ \E p \in 1..Len(caches), i \in 1..SIZE, e \in ValidEncodings : Build(p, i, e)
    \/ SerializeRaw
    \/ SerializePortable
    \/ \E L \in Lengths(Len(file.bytes)) : DeserializeRaw(L)
    \/ \E n \in 0..MaxN : DeserializePortable(n)
    \/ Restart

\* One process that builds, saves and loads in the portable form: every
\* handler index it holds comes from set_handler.
NextReg ==
    \/ \E p \in 1..Len(caches), i \in 1..SIZE, e \in ValidEncodings : Build(p, i, e)
    \/ SerializePortable
    \/ \E n \in 0..MaxN : DeserializePortable(n)


(* ------------------------------------------------------------------ *)
(* Guest memory: pages and the page table                                *)
(* ------------------------------------------------------------------ *)

\* Page numbers are 0..MaxPage.
MaxPage == 2
\* max_mem / Page::size(), the m_pages_total of the constructor.
MaxMemPages == 2
\* The most Page objects of Memory that are live at once.
MaxLive == 3
\* The guest address space is 0..AddrMod-1: 2^(8W), scaled down.
AddrMod == 65536

PageNos == 0..MaxPage

Max(a, b) == IF a >= b THEN a ELSE b

\* Page objects are numbered: those Memory allocates are 1, 2, ..., the
\* global zeroed copy-on-write page is 0, the pages a caller owns are negative.
CowPage == 0

\* The attributes of the page zeroed_page.
CowAttr == [read |-> TRUE, write |-> FALSE, exec |-> FALSE, shared |-> FALSE, is_cow |-> TRUE]

\* The attributes of a page made by new Page.
NewPageAttr == [read |-> TRUE, write |-> TRUE, exec |-> FALSE, shared |-> FALSE, is_cow |-> FALSE]

\* The pages callers own and offer to install_shared_page: a shared page, a
\* shared page that is also copy-on-write, and a page that is not shared.
CallerPages ==
    [id \in {-1, -2, -3} |->
        [read |-> TRUE, write |-> id # -2, exec |-> FALSE, shared |-> id # -3, is_cow |-> id = -2]]

\* page.attr of a Page object.
AttrOf(m, id) ==
    IF id = CowPage THEN CowAttr
    ELSE IF id \in DOMAIN CallerPages THEN CallerPages[id]
    ELSE m.attr[id]

\* The address new Page returns: one that no live object has.
NewId(m) == CHOOSE i \in 1..(Cardinality(m.live) + 1) : i \notin m.live

\* Memory::pages_active
pages_active(m) == Cardinality(DOMAIN m.m_pages)

\* Memory::pages_total
pages_total(m) == m.m_pages_total

\* Memory::get_pageno: the page mapped at a page number, else the COW page.
get_pageno(m, page) == IF page \in DOMAIN m.m_pages THEN m.m_pages[page] ELSE CowPage

\* Memory::invalidate_page: a cached page of the page number is dropped.
invalidate_page(m, page, ptr) ==
    [m EXCEPT !.m_current_rd_page = IF @ = page THEN -1 ELSE @,
              !.m_current_rd_ptr = IF m.m_current_rd_page = page THEN -1 ELSE @,
              !.m_current_wr_page = IF @ = page THEN -1 ELSE @,
              !.m_current_wr_ptr = IF m.m_current_wr_page = page THEN -1 ELSE @]

\* Memory::allocate_page: map::insert keeps an entry that is there already.
allocate_page(m, page) ==
    LET np == NewId(m)
        pages == IF page \in DOMAIN m.m_pages THEN m.m_pages ELSE Put(m.m_pages, page, np)
        m1 == [m EXCEPT !.live = @ \cup {np},
                        !.attr = Put(@, np, NewPageAttr),
                        !.m_pages = pages,
                        !.m_pages_highest = Max(@, Cardinality(DOMAIN pages))]
    IN [m |-> invalidate_page(m1, page, pages[page]), exc |-> "none", ret |-> pages[page]]

\* Memory::default_page_fault
default_page_fault(m, page) ==
    IF pages_active(m) < pages_total(m)
    THEN allocate_page(m, page)
    ELSE [m |-> m, exc |-> "OutOfMemory", ret |-> -1]

\* Memory::create_page: the page mapped at the number, else what the page
\* fault handler makes.
create_page(m, page) ==
    IF page \in DOMAIN m.m_pages
    THEN [m |-> m, exc |-> "none", ret |-> m.m_pages[page]]
    ELSE default_page_fault(m, page)

\* Memory::install_shared_page: map::insert keeps an entry that is there already.
install_shared_page(m, pageno, shared_page) ==
    IF ~AttrOf(m, get_pageno(m, pageno)).is_cow
    THEN [m |-> m, exc |-> "IllegalOperation", ret |-> -1]
    ELSE IF ~AttrOf(m, shared_page).shared
    THEN [m |-> m, exc |-> "IllegalOperation", ret |-> -1]
    ELSE [m |-> [m EXCEPT !.m_pages = IF pageno \in DOMAIN @ THEN @
                                      ELSE Put(@, pageno, shared_page)],
          exc |-> "none", ret |-> -1]

\* Memory::clear_all_pages: every mapped page without the shared attribute
\* is deleted, once per entry of the table.
clear_all_pages(m) ==
    LET dead == { pg \in DOMAIN m.m_pages : ~AttrOf(m, m.m_pages[pg]).shared }
        objs == { m.m_pages[pg] : pg \in dead }
    IN [m EXCEPT !.live = @ \ objs,
                 !.attr = [id \in (DOMAIN @) \ objs |-> @[id]],
                 !.double_free = @ \/ Cardinality(objs) < Cardinality(dead)
                                   \/ ~(objs \subseteq m.live),
                 !.foreign_freed = @ \/ (objs \ m.live) # {},
                 !.m_pages = EmptyMap,
                 !.data = EmptyMap,
                 !.m_current_rd_page = -1, !.m_current_rd_ptr = -1,
                 !.m_current_wr_page = -1, !.m_current_wr_ptr = -1]

\* The page numbers of the guest range [addr, addr + len).
PagesOf(addr, len) == { a \div PageSize : a \in addr..(addr + len - 1) }

\* The byte the ELF file holds at an offset.
FileByte(offset) == (offset * 7 + 3) % 256

\* Memory::memcpy: every page of the range is created, in address order,
\* until one cannot be; then the len bytes of the file at src are in the
\* guest at dst.
RECURSIVE TouchPages(_, _)
TouchPages(m, todo) ==
    IF todo = {} THEN [m |-> m, exc |-> "none", ret |-> -1]
    ELSE LET pg == CHOOSE x \in todo : \A y \in todo : x <= y
             r == create_page(m, pg)
         IN IF r.exc # "none" THEN r ELSE TouchPages(r.m, todo \ {pg})

memcpy(m, dst, src, len) ==
    LET r == TouchPages(m, PagesOf(dst, len))
        range == dst..(dst + len - 1)
    IN IF r.exc # "none" THEN r
       ELSE [r EXCEPT !.m.data =
                [a \in (DOMAIN @) \cup range |->
                    IF a \in range THEN FileByte(src + (a - dst)) ELSE @[a]]]

\* Memory::set_page_attr: every page of the range gets the attributes.
set_page_attr(m, dst, len, options) ==
    LET objs == { get_pageno(m, pg) : pg \in PagesOf(dst, len) }
    IN [m EXCEPT !.attr = [id \in DOMAIN @ |-> IF id \in objs THEN options ELSE @[id]]]

\* A PageAttributes brace-initialized with read, write and exec.
Rwx(r, w, x) == [read |-> r, write |-> w, exec |-> x, shared |-> FALSE, is_cow |-> FALSE]

\* Memory::binary_load_ph; size is m_binary.size().  The end of the
\* segment is cast to uint32_t (the width of the addresses, AddrMod here).
binary_load_ph(m, hdr, size) ==
    LET len == hdr.p_filesz
        c == memcpy(m, hdr.p_vaddr, hdr.p_offset, len)
        options == IF c.m.m_protect_segments
                   THEN Rwx(hdr.PF_R, hdr.PF_W, hdr.PF_X)
                   ELSE Rwx(TRUE, TRUE, TRUE)
        m1 == set_page_attr(c.m, hdr.p_vaddr, len, options)
    IN IF size < hdr.p_offset + len
       THEN [m |-> m, exc |-> "runtime_error", ret |-> -1]
       ELSE IF c.exc # "none" THEN c
       ELSE [m |-> [m1 EXCEPT !.m_elf_end_vaddr = Max(@, (hdr.p_vaddr + len) % AddrMod)],
             exc |-> "none", ret |-> -1]

\* The loop of binary_loader over the program headers, in order.
RECURSIVE load_segments(_, _, _)
load_segments(m, phdrs, size) ==
    IF phdrs = << >> THEN [m |-> m, exc |-> "none", ret |-> -1]
    ELSE LET hdr == Head(phdrs)
             r == IF hdr.p_type = "PT_LOAD" THEN binary_load_ph(m, hdr, size)
                  ELSE IF hdr.p_type = "PT_GNU_STACK"
                  THEN [m |-> [m EXCEPT !.m_stack_address = hdr.p_vaddr],
                        exc |-> "none", ret |-> -1]
                  ELSE [m |-> m, exc |-> "none", ret |-> -1]
         IN IF r.exc # "none" THEN r ELSE load_segments(r.m, Tail(phdrs), size)

\* sizeof(Ehdr), the least size of an ELF binary
EhdrSize == 64

\* Memory::binary_loader.  A binary is its ELF header (with the size of the
\* file) followed by its program headers.
binary_loader(m, binary) ==
    LET elf == Head(binary)
        phdrs == Tail(binary)
    IN IF elf.size < EhdrSize \/ phdrs = << >>
       THEN [m |-> m, exc |-> "runtime_error", ret |-> -1]
       ELSE load_segments([m EXCEPT !.m_start_address = elf.e_entry,
                                    !.m_stack_address = Head(phdrs).p_vaddr],
                          phdrs, elf.size)

\* Memory::initial_paging
initial_paging(m) ==
    LET r == create_page(clear_all_pages(m), 0)
    IN IF r.exc # "none" THEN r
       ELSE [r EXCEPT !.m = [r.m EXCEPT !.attr = Put(@, r.ret, Rwx(FALSE, FALSE, FALSE))]]

\* Memory::reset
reset(m, binary) ==
    LET r == initial_paging(m)
    IN IF r.exc # "none" \/ binary = << >> THEN r ELSE binary_loader(r.m, binary)

\* The members of a Memory before the constructor's reset.
NewMemory(total) ==
    [m_pages |-> EmptyMap, attr |-> EmptyMap, live |-> {},
     double_free |-> FALSE, foreign_freed |-> FALSE,
     m_pages_total |-> total, m_pages_highest |-> 0,
     m_current_rd_page |-> -1, m_current_rd_ptr |-> -1,
     m_current_wr_page |-> -1, m_current_wr_ptr |-> -1,
     m_protect_segments |-> TRUE, m_elf_end_vaddr |-> 0,
     m_start_address |-> 0, m_stack_address |-> 0, data |-> EmptyMap,
     alive |-> TRUE]

\* The size of the ELF files of the model.
FileSize == 128

\* The ELF header of a file that starts at e_entry.
Ehdr(entry) == [e_entry |-> entry, size |-> FileSize]

\* A PT_LOAD program header; the bytes are in the file at the offset that
\* matches the address.
Phdr(vaddr, filesz, r, w, x) ==
    [p_type |-> "PT_LOAD", p_offset |-> EhdrSize + vaddr,
     p_vaddr |-> vaddr, p_filesz |-> filesz, PF_R |-> r, PF_W |-> w, PF_X |-> x]

\* The binaries: none, one with its text in page 1, one with a segment at
\* address 0, one with an empty segment at address 0.
Binaries ==
    { << >>,
      << Ehdr(PageSize), Phdr(PageSize, 2, TRUE, FALSE, TRUE) >>,
      << Ehdr(0), Phdr(0, 2, TRUE, FALSE, FALSE) >>,
      << Ehdr(0), Phdr(0, 0, TRUE, FALSE, FALSE) >> }

MIdle == [op |-> "none", exc |-> "none", page |-> -1, arg |-> 0,
          active_before |-> 0, cow_before |-> FALSE, changed |-> FALSE]

\* Memory::Memory
InitMem ==
    /\ m_binary \in Binaries
    /\ mem = reset(NewMemory(MaxMemPages), m_binary).m
    /\ mlast = MIdle

\* What an operation on page number page leaves in mlast.
Did(op, r, page, arg) ==
    [op |-> op, exc |-> r.exc, page |-> page, arg |-> arg,
     active_before |-> pages_active(mem),
     cow_before |-> AttrOf(mem, get_pageno(mem, page)).is_cow,
     changed |-> r.m.m_pages # mem.m_pages]

Apply(op, r, page, arg) ==
    /\ Cardinality(r.m.live) <= MaxLive
    /\ mem' = r.m
    /\ mlast' = Did(op, r, page, arg)
    /\ UNCHANGED << m_binary, dcVars, sysVars, auxVars >>

AllocatePage(page) ==
    /\ mem.alive
    /\ Apply("allocate_page", allocate_page(mem, page), page, 0)

CreatePage(page) ==
    /\ mem.alive
    /\ Apply("create_page", create_page(mem, page), page, 0)

DefaultPageFault(page) ==
    /\ mem.alive
    /\ Apply("default_page_fault", default_page_fault(mem, page), page, 0)

InstallSharedPage(page, shared_page) ==
    /\ mem.alive
    /\ Apply("install_shared_page", install_shared_page(mem, page, shared_page), page, shared_page)

\* A guest read of a page: the page becomes the cached read page when it is
\* readable.
ReadPage(page) ==
    /\ mem.alive
    /\ mem.m_current_rd_page # page
    /\ LET ptr == get_pageno(mem, page)
           ok == AttrOf(mem, ptr).read
           m1 == IF ok THEN [mem EXCEPT !.m_current_rd_page = page, !.m_current_rd_ptr = ptr]
                 ELSE mem
       IN Apply("read", [m |-> m1, exc |-> IF ok THEN "none" ELSE "ProtectionFault", ret |-> ptr],
                page, 0)

\* A guest write of a page: the page is created and becomes the cached write
\* page when it is writable.
WritePage(page) ==
    /\ mem.alive
    /\ mem.m_current_wr_page # page
    /\ LET c == create_page(mem, page)
           ok == c.exc = "none" /\ AttrOf(c.m, c.ret).write
           m1 == IF ok THEN [c.m EXCEPT !.m_current_wr_page = page, !.m_current_wr_ptr = c.ret]
                 ELSE c.m
       IN Apply("write", [m |-> m1,
                          exc |-> IF c.exc # "none" THEN c.exc
                                  ELSE IF ok THEN "none" ELSE "ProtectionFault",
                          ret |-> c.ret], page, 0)

Reset ==
    /\ mem.alive
    /\ Apply("reset", reset(mem, m_binary), 0, 0)

\* Memory::~Memory
Destroy ==
    /\ mem.alive
    /\ Apply("destroy", [m |-> [clear_all_pages(mem) EXCEPT !.alive = FALSE],
                         exc |-> "none", ret |-> -1], 0, 0)

\* The host turns the protect_segments knob.
SetProtectSegments(b) ==
    /\ mem.alive
    /\ mem.m_protect_segments # b
    /\ Apply("protect", [m |-> [mem EXCEPT !.m_protect_segments = b],
                         exc |-> "none", ret |-> -1], 0, 0)

\* The program headers of the ELF files: text in page 1, data that begins
\* in the page where the text ends, a segment at address 0, an empty
\* segment, and a header that is not PT_LOAD.
ElfSegments ==
    { Phdr(PageSize, 2, TRUE, FALSE, TRUE),
      Phdr(PageSize + 2, 2, TRUE, TRUE, FALSE),
      Phdr(0, 2, TRUE, FALSE, FALSE),
      Phdr(PageSize, 0, TRUE, FALSE, FALSE),
      [Phdr(PageSize, 0, TRUE, TRUE, FALSE) EXCEPT !.p_type = "PT_GNU_STACK"] }

\* The ELF files: an entry point and one or two program headers.
ElfBinaries ==
    { << Ehdr(e), s >> : e \in {0, PageSize}, s \in ElfSegments }
    \cup { b \in { << Ehdr(e), s, t >> :
                       e \in {0, PageSize}, s \in ElfSegments, t \in ElfSegments } :
                b[2] # b[3] }

\* Memory::Memory with an ELF file that loads (the constructor throws
\* otherwise).
InitElf ==
    /\ m_binary \in ElfBinaries
    /\ reset(NewMemory(MaxMemPages), m_binary).exc = "none"
    /\ mem = reset(NewMemory(MaxMemPages), m_binary).m
    /\ mlast = MIdle

\* A Memory with its binary is reset, with protect_segments on and off.
NextElf ==
    \/ Reset
    \/ \E b \in BOOLEAN : SetProtectSegments(b)

NextMem ==
    \/ \E page \in PageNos : AllocatePage(page)
    \/ \E page \in PageNos : CreatePage(page)
    \/ \E page \in PageNos : DefaultPageFault(page)
    \/ \E page \in PageNos, sp \in DOMAIN CallerPages : InstallSharedPage(page, sp)
    \/ \E page \in PageNos : ReadPage(page)
    \/ \E page \in PageNos : WritePage(page)
    \/ Reset
    \/ Destroy

(* ------------------------------------------------------------------ *)
(* System calls: the Machine, the FileDescriptors table and the host     *)
(* ------------------------------------------------------------------ *)

\* The host descriptors are 0..MaxFd (the host's limit of open files).
MaxFd == 4
\* The most virtual descriptors the table hands out in one run.
MaxVfd == 5

\* errno values of the host, as the handlers negate them.
EPERM == 1
ENOENT == 2
EBADF == 9
EINVAL == 22
EMFILE == 24
ENOMEM == 12
ENOSYS == 38

\* The first virtual descriptor the table hands out.
FirstVfd == 3

\* openat's dir_fd for "the current directory".
AT_FDCWD == 0 - 100

StdFds == {0, 1, 2}

\* A signal action nobody has set.
UnsetAction == [handler |-> 0, altstack |-> FALSE, mask |-> 0]

\* The signals of the model are 1..MaxSig.
MaxSig == 2

\* A Machine before setup_linux_syscalls, in a host with the descriptors
\* open that host_open names.
NewMachine(host_open, heap) ==
    [a0 |-> 0, pc |-> 64, sp |-> 512, ra |-> 0, stopped |-> FALSE,
     has_fds |-> FALSE, translation |-> EmptyMap, counter |-> FirstVfd,
     permit_filesystem |-> TRUE, filter_open |-> FALSE,
     sigactions |-> [sig \in 1..MaxSig |-> UnsetAction],
     altstack |-> [ss_sp |-> 0, ss_size |-> 0],
     heap_address |-> heap,
     errno |-> 0, host_open |-> host_open, bad_close |-> FALSE]

\* Machine::set_result
set_result(m, value) == [m EXCEPT !.a0 = value]

\* Machine::set_result_or_error: a negative host result becomes -errno.
set_result_or_error(m, res) == set_result(m, IF res < 0 THEN 0 - m.errno ELSE res)

\* Machine::has_file_descriptors
has_file_descriptors(m) == m.has_fds

\* FileDescriptors::assign_file: the next virtual descriptor names real_fd.
assign_file(m, real_fd) ==
    [m |-> [m EXCEPT !.translation = Put(@, m.counter, real_fd), !.counter = @ + 1],
     ret |-> m.counter]

\* FileDescriptors::translate: the real descriptor of vfd; the standard
\* descriptors and the negative ones go through as they are.
translate(m, vfd) ==
    IF vfd \in DOMAIN m.translation THEN m.translation[vfd]
    ELSE IF vfd <= 2 THEN vfd
    ELSE 0 - 1

\* FileDescriptors::erase: the entry of vfd is removed and its real
\* descriptor returned.
erase(m, vfd) ==
    IF vfd \in DOMAIN m.translation
    THEN [m |-> [m EXCEPT !.translation = [v \in DOMAIN @ \ {vfd} |-> @[v]]],
          ret |-> m.translation[vfd]]
    ELSE [m |-> m, ret |-> 0 - EBADF]

\* The host's close(2): closing a descriptor that is not open fails.
host_close(m, fd) ==
    IF fd \in m.host_open
    THEN [m EXCEPT !.host_open = @ \ {fd}]
    ELSE [m EXCEPT !.errno = EBADF, !.bad_close = TRUE]

\* The descriptors the host can still hand out.
FreeFds(m) == (0..MaxFd) \ m.host_open

\* The host opens a file: the lowest free descriptor, or -1 and errno
\* (err when the host refuses, EMFILE when no descriptor is free).
host_open_fd(m, err) ==
    IF err # 0 THEN [m |-> [m EXCEPT !.errno = err], ret |-> 0 - 1]
    ELSE IF FreeFds(m) = {} THEN [m |-> [m EXCEPT !.errno = EMFILE], ret |-> 0 - 1]
    ELSE LET fd == CHOOSE f \in FreeFds(m) : \A g \in FreeFds(m) : f <= g
         IN [m |-> [m EXCEPT !.host_open = @ \cup {fd}], ret |-> fd]

\* The paths a guest names, and the ones the host's filter_open turns down.
Paths == {"/etc/hostname", "/secret"}
FilterRejects == {"/secret"}

\* What a handler leaves behind: the machine, whether it raised, and what
\* it did to the host and to guest memory.
Done(m) == [m |-> m, exc |-> "none", host_called |-> FALSE, host_ret |-> 0,
            printed |-> << >>, calls |-> << >>, copied |-> << >>]

\* syscall_close
syscall_close(m, vfd) ==
    IF vfd >= 0 /\ vfd <= 2
    THEN Done(set_result(m, 0))
    ELSE IF has_file_descriptors(m)
    THEN LET e == erase(m, vfd)
             res == e.ret
             m1 == IF res > 0 THEN host_close(e.m, res) ELSE e.m
         IN Done(set_result(m1, IF res >= 0 THEN 0 ELSE 0 - EBADF))
    ELSE Done(set_result(m, 0 - EBADF))

\* syscall_openat; err is what the host's openat answers (0: it opens).
syscall_openat(m, dir_fd, path, err) ==
    IF has_file_descriptors(m) /\ m.permit_filesystem
    THEN IF m.filter_open /\ path \in FilterRejects
         THEN Done(set_result(m, 0 - EPERM))
         ELSE LET h == host_open_fd(m, err)
                  real_fd == h.ret
                  a == assign_file(h.m, real_fd)
              IN [Done(IF real_fd > 0 THEN set_result(a.m, a.ret)
                       ELSE set_result(h.m, 0 - h.m.errno))
                    EXCEPT !.host_called = TRUE, !.host_ret = real_fd]
    ELSE Done(set_result(m, 0 - EBADF))

\* syscall_pipe2: both ends get a virtual descriptor.
syscall_pipe2(m, err) ==
    IF has_file_descriptors(m)
    THEN LET h0 == host_open_fd(m, err)
             h1 == host_open_fd(h0.m, err)
             res == IF h0.ret < 0 \/ h1.ret < 0 THEN 0 - 1 ELSE 0
             a0 == assign_file(h1.m, h0.ret)
             a1 == assign_file(a0.m, h1.ret)
         IN IF res = 0
            THEN [Done(set_result(a1.m, 0))
                    EXCEPT !.host_called = TRUE, !.copied = << a0.ret, a1.ret >>]
            ELSE [Done(set_result_or_error(
                          [m EXCEPT !.errno = IF err # 0 THEN err ELSE EMFILE], res))
                    EXCEPT !.host_called = TRUE, !.host_ret = res]
    ELSE Done(set_result(m, 0 - EBADF))

\* The host's dup(2): the lowest free descriptor names what fd names.
host_dup(m, fd) ==
    IF fd \notin m.host_open THEN [m |-> [m EXCEPT !.errno = EBADF], ret |-> 0 - 1]
    ELSE host_open_fd(m, 0)

\* syscall_dup
syscall_dup(m, vfd) ==
    IF has_file_descriptors(m)
    THEN LET real_fd == translate(m, vfd)
             h == host_dup(m, real_fd)
         IN [Done(set_result_or_error(h.m, h.ret))
               EXCEPT !.host_called = TRUE, !.host_ret = h.ret]
    ELSE Done(set_result(m, 0 - EBADF))

\* A host call on a path: it succeeds with ret, or fails with errno err.
host_path_call(m, ret, err) ==
    IF err # 0 THEN [m |-> [m EXCEPT !.errno = err], ret |-> 0 - 1]
    ELSE [m |-> m, ret |-> ret]

\* The host's answer that a handler hands to the guest.
Forwarded(h) ==
    [Done(set_result_or_error(h.m, h.ret)) EXCEPT !.host_called = TRUE, !.host_ret = h.ret]

\* syscall_faccessat: the host's faccessat on AT_FDCWD.
syscall_faccessat(m, path, err) == Forwarded(host_path_call(m, 0, err))

\* char buffer[16384] of readlinkat
ReadlinkMax == 16384
\* The length of the links of the model.
LinkLen == 4

\* syscall_readlinkat
syscall_readlinkat(m, vfd, path, bufsize, err) ==
    IF bufsize > ReadlinkMax
    THEN Done(set_result(m, 0 - ENOMEM))
    ELSE IF has_file_descriptors(m)
    THEN IF m.filter_open /\ path \in FilterRejects
         THEN Done(set_result(m, 0 - EPERM))
         ELSE LET h == host_path_call(m, IF bufsize < LinkLen THEN bufsize ELSE LinkLen, err)
              IN [Forwarded(h) EXCEPT !.copied = IF h.ret > 0 THEN << h.ret >> ELSE << >>]
    ELSE Done(set_result(m, 0 - ENOSYS))

\* syscall_fstatat
syscall_fstatat(m, vfd, path, err) ==
    IF has_file_descriptors(m)
    THEN LET h == host_path_call(m, 0, err)
         IN [Forwarded(h) EXCEPT !.copied = IF h.ret = 0 THEN << translate(m, vfd) >> ELSE << >>]
    ELSE Done(set_result(m, 0 - ENOSYS))

\* syscall_statx; rejected is whether filter_stat is set and turns the path
\* down.
syscall_statx(m, dir_fd, path, rejected, err) ==
    IF has_file_descriptors(m)
    THEN IF rejected
         THEN Done(set_result(m, 0 - EPERM))
         ELSE LET h == host_path_call(m, 0, err)
              IN [Forwarded(h) EXCEPT !.copied = IF h.ret = 0 THEN << dir_fd >> ELSE << >>]
    ELSE Done(set_result(m, 0 - ENOSYS))

\* FileDescriptors::~FileDescriptors: every real descriptor of the table
\* is closed.
RECURSIVE CloseAll(_, _)
CloseAll(m, vfds) ==
    IF vfds = {} THEN m
    ELSE LET v == CHOOSE x \in vfds : \A y \in vfds : x <= y
         IN CloseAll(host_close(m, m.translation[v]), vfds \ {v})

FileDescriptors_dtor(m) ==
    [CloseAll(m, DOMAIN m.translation)
        EXCEPT !.translation = EmptyMap, !.has_fds = FALSE, !.counter = FirstVfd]

\* Machine::setup_linux_syscalls: m_fds.reset(new FileDescriptors) when
\* the filesystem or sockets are asked for.
setup_linux_syscalls(m, filesystem, sockets) ==
    IF filesystem \/ sockets
    THEN [FileDescriptors_dtor(m) EXCEPT !.has_fds = TRUE]
    ELSE m

\* No system call was made yet.
SIdle == [op |-> "none", arg |-> << >>, before |-> NewMachine(StdFds, 0),
          exc |-> "none", host_called |-> FALSE, host_ret |-> 0,
          printed |-> << >>, calls |-> << >>, copied |-> << >>]

\* The record of a call: what was asked, the machine before, the outcome.
Called(op, arg, r) ==
    [op |-> op, arg |-> arg, before |-> sys, exc |-> r.exc,
     host_called |-> r.host_called, host_ret |-> r.host_ret,
     printed |-> r.printed, calls |-> r.calls, copied |-> r.copied]

\* A handler runs on the machine.
Syscall(op, arg, r) ==
    /\ sys' = r.m
    /\ slast' = Called(op, arg, r)
    /\ UNCHANGED << dcVars, memVars, auxVars >>

\* A handler runs on the machine m, which is sys with the guest's first
\* argument in a0.
Entered(m, op, arg, r) ==
    /\ sys' = r.m
    /\ slast' = [Called(op, arg, r) EXCEPT !.before = m]
    /\ UNCHANGED << dcVars, memVars, auxVars >>

\* The descriptors the host process has open when the machine starts.
HostStarts == { {0, 1, 2}, {1, 2}, {0} }

\* The heap addresses of the model: low, the spec's example scaled, and
\* one whose distance to the end of the address space is below BRK_MAX.
HeapLow == 32768

\* A machine that made no system call, in a host with the standard
\* descriptors open.
QuietSys == sys = NewMachine(StdFds, HeapLow) /\ slast = SIdle

\* The guest's descriptor arguments.
Vfds == {0 - 1} \cup (0..MaxVfd)

\* The host's answers to an open: it opens, or it fails with this errno.
OpenErrs == {0, ENOENT}

SetupLinux(filesystem, sockets) ==
    /\ sys.counter = FirstVfd \/ sys.has_fds
    /\ Syscall("setup", << filesystem, sockets >>,
               Done(setup_linux_syscalls(sys, filesystem, sockets)))

\* The host configures the table it made.
Configure(pf, fo) ==
    /\ sys.has_fds
    /\ sys.translation = EmptyMap
    /\ Syscall("configure", << pf, fo >>,
               Done([sys EXCEPT !.permit_filesystem = pf, !.filter_open = fo]))

SysClose(vfd) ==
    /\ vfd \in Vfds
    /\ Syscall("close", [vfd |-> vfd], syscall_close(sys, vfd))

SysOpenat(path, err) ==
    /\ sys.counter <= MaxVfd
    /\ Syscall("openat", [path |-> path, err |-> err],
               syscall_openat(sys, AT_FDCWD, path, err))

SysPipe2(err) ==
    /\ sys.counter + 1 <= MaxVfd
    /\ Syscall("pipe2", [err |-> err], syscall_pipe2(sys, err))

\* The Machine is destroyed, and its FileDescriptors with it.
DestroyFds ==
    /\ sys.has_fds
    /\ Syscall("destroy", << >>, Done(FileDescriptors_dtor(sys)))

NextFd ==
    \/ \E fs \in BOOLEAN : SetupLinux(fs, FALSE)
    \/ \E pf \in BOOLEAN, fo \in BOOLEAN : Configure(pf, fo)
    \/ \E vfd \in Vfds : SysClose(vfd)
    \/ \E path \in Paths, err \in OpenErrs : SysOpenat(path, err)
    \/ \E err \in OpenErrs : SysPipe2(err)
    \/ DestroyFds

SysDup(vfd) ==
    /\ vfd \in Vfds
    /\ Syscall("dup", [vfd |-> vfd], syscall_dup(sys, vfd))

\* The system calls that hand out descriptors, and those that give them up.
NextDesc ==
    \/ \E fs \in BOOLEAN : SetupLinux(fs, FALSE)
    \/ \E vfd \in Vfds : SysClose(vfd)
    \/ \E path \in Paths, err \in OpenErrs : SysOpenat(path, err)
    \/ \E err \in OpenErrs : SysPipe2(err)
    \/ \E vfd \in Vfds : SysDup(vfd)
    \/ DestroyFds

SysFaccessat(path, err) ==
    /\ path \in Paths
    /\ Syscall("faccessat", [path |-> path, err |-> err], syscall_faccessat(sys, path, err))

SysReadlinkat(vfd, path, bufsize, err) ==
    /\ vfd \in Vfds
    /\ Syscall("readlinkat", [vfd |-> vfd, path |-> path, bufsize |-> bufsize, err |-> err],
               syscall_readlinkat(sys, vfd, path, bufsize, err))

SysFstatat(vfd, path, err) ==
    /\ vfd \in Vfds
    /\ Syscall("fstatat", [vfd |-> vfd, path |-> path, err |-> err],
               syscall_fstatat(sys, vfd, path, err))

SysStatx(dir_fd, path, rejected, err) ==
    /\ dir_fd \in Vfds \cup {AT_FDCWD}
    /\ Syscall("statx", [dir_fd |-> dir_fd, path |-> path, rejected |-> rejected, err |-> err],
               syscall_statx(sys, dir_fd, path, rejected, err))

\* The system calls that take a path.
NextPath ==
    \/ \E fs \in BOOLEAN : SetupLinux(fs, FALSE)
    \/ \E pf \in BOOLEAN, fo \in BOOLEAN : Configure(pf, fo)
    \/ \E path \in Paths, err \in OpenErrs : SysOpenat(path, err)
    \/ \E path \in Paths, err \in OpenErrs : SysFaccessat(path, err)
    \/ \E vfd \in {AT_FDCWD, 3}, path \in Paths, bufsize \in {8, ReadlinkMax + 1},
          err \in OpenErrs : SysReadlinkat(vfd, path, bufsize, err)
    \/ \E vfd \in {AT_FDCWD, 3}, path \in Paths, err \in OpenErrs : SysFstatat(vfd, path, err)
    \/ \E dir_fd \in {AT_FDCWD, 3}, path \in Paths, rejected \in BOOLEAN, err \in OpenErrs :
          SysStatx(dir_fd, path, rejected, err)

\* A machine in a host that has some of the standard descriptors open.
InitSys ==
    /\ sys \in { NewMachine(h, HeapLow) : h \in HostStarts }
    /\ slast = SIdle

(* ------------------------------------------------------------------ *)
(* System calls: write, writev, readv, getrandom                         *)
(* ------------------------------------------------------------------ *)

\* std::array<riscv::vBuffer, 64> buffers
GatherMax == 64
\* std::array<struct iovec, 256> vec of readv
ReadvVecMax == 256
\* The most iovecs readv takes.
ReadvMax == 128
\* The most iovecs writev takes.
WritevMax == 256
\* char buffer[256] of getrandom
RandomMax == 256

Min(a, b) == IF a <= b THEN a ELSE b

\* The byte the guest holds at an address (all of the range is readable).
GuestByte(a) == (a * 5 + 1) % 256

\* The bytes of the guest range [addr, addr + len).
GuestBytes(addr, len) == [i \in 1..len |-> GuestByte(addr + i - 1)]

\* The spans of a guest range: one per page the range touches.
SpansOf(addr, len) ==
    IF len = 0 THEN << >>
    ELSE LET first == addr \div PageSize
             final == (addr + len - 1) \div PageSize
         IN [k \in 1..(final - first + 1) |->
                LET lo == Max(addr, (first + k - 1) * PageSize)
                    hi == Min(addr + len, (first + k) * PageSize)
                IN [ptr |-> lo, len |-> hi - lo]]

\* Memory::gather_buffers_from_range: the spans that cover the range
\* exactly; a range that needs more than max spans raises.
gather_buffers_from_range(max, addr, len) ==
    LET spans == SpansOf(addr, len)
    IN IF Len(spans) > max
       THEN [exc |-> "OUT_OF_MEMORY", spans |-> << >>]
       ELSE [exc |-> "none", spans |-> spans]

\* The bytes a list of spans points at, span by span.
SpanBytes(spans) == [k \in 1..Len(spans) |-> GuestBytes(spans[k].ptr, spans[k].len)]

\* The number of bytes in the spans lo..hi of a list.
RECURSIVE SpanLenRange(_, _, _)
SpanLenRange(spans, lo, hi) ==
    IF lo > hi THEN 0
    ELSE IF lo = hi THEN spans[lo].len
    ELSE LET mid == (lo + hi) \div 2
         IN SpanLenRange(spans, lo, mid) + SpanLenRange(spans, mid + 1, hi)

\* The number of bytes in a list of spans.
SpanLen(spans) == SpanLenRange(spans, 1, Len(spans))

\* The sequences lo..hi of a list of sequences, joined.
RECURSIVE FlattenRange(_, _, _)
FlattenRange(ss, lo, hi) ==
    IF lo > hi THEN << >>
    ELSE IF lo = hi THEN ss[lo]
    ELSE LET mid == (lo + hi) \div 2
         IN FlattenRange(ss, lo, mid) \o FlattenRange(ss, mid + 1, hi)

\* A list of sequences, joined.
Flatten(ss) == FlattenRange(ss, 1, Len(ss))

\* The host's writev(2) on fd: it writes all, nothing, or fails (EBADF).
host_writev(m, fd, spans, how) ==
    IF how = "fail" THEN [m |-> [m EXCEPT !.errno = EBADF], ret |-> 0 - 1]
    ELSE IF how = "zero" THEN [m |-> m, ret |-> 0]
    ELSE [m |-> m, ret |-> SpanLen(spans)]

HostAnswers == {"full", "zero", "fail"}

\* A handler raised: the machine as it was, nothing returned to the guest.
Raised(m, exc) == [Done(m) EXCEPT !.exc = exc]

\* syscall_write; pw is what permit_write(vfd) answers, how what the host does.
syscall_write(m, vfd, address, len, pw, how) ==
    IF vfd = 1 \/ vfd = 2
    THEN LET g == gather_buffers_from_range(GatherMax, address, len)
         IN IF g.exc # "none" THEN Raised(m, g.exc)
            ELSE [Done(set_result(m, len)) EXCEPT !.printed = SpanBytes(g.spans)]
    ELSE IF has_file_descriptors(m) /\ pw
    THEN LET real_fd == translate(m, vfd)
             g == gather_buffers_from_range(GatherMax, address, len)
             h == host_writev(m, real_fd, g.spans, how)
         IN IF g.exc # "none" THEN Raised(m, g.exc)
            ELSE [Done(set_result_or_error(h.m, h.ret))
                    EXCEPT !.host_called = TRUE, !.host_ret = h.ret,
                           !.calls = << [fd |-> real_fd, spans |-> g.spans] >>]
    ELSE Done(set_result(m, 0 - EBADF))

\* The loop of syscall_writev from iovec i on; r carries the machine, the
\* running result and what was printed and written so far.
RECURSIVE writev_loop(_, _, _, _, _, _)
writev_loop(r, res, real_fd, iov, i, hows) ==
    IF i > Len(iov) THEN [r EXCEPT !.m = set_result_or_error(r.m, res)]
    ELSE LET g == gather_buffers_from_range(GatherMax, iov[i].iov_base, iov[i].iov_len)
         IN IF g.exc # "none" THEN [r EXCEPT !.exc = g.exc]
            ELSE IF real_fd = 1 \/ real_fd = 2
            THEN writev_loop([r EXCEPT !.printed = @ \o SpanBytes(g.spans)],
                             res + iov[i].iov_len, real_fd, iov, i + 1, hows)
            ELSE LET h == host_writev(r.m, real_fd, g.spans, hows[i])
                     written == h.ret
                     r1 == [r EXCEPT !.m = h.m, !.host_called = TRUE,
                                     !.calls = Append(@, [fd |-> real_fd, spans |-> g.spans])]
                 IN IF written > 0
                    THEN writev_loop(r1, res + written, real_fd, iov, i + 1, hows)
                    ELSE IF written < 0
                    THEN [r1 EXCEPT !.m = set_result_or_error(r1.m, written)]
                    ELSE [r1 EXCEPT !.m = set_result_or_error(r1.m, res)]

\* syscall_writev; iov is the guest's iovec array of count entries (none
\* when count is out of range), hows what the host does with each writev.
syscall_writev(m, vfd, iov, count, hows) ==
    IF count < 0 \/ count > WritevMax
    THEN Done(set_result(m, 0 - EINVAL))
    ELSE LET real_fd == IF vfd = 1 \/ vfd = 2 THEN vfd
                        ELSE IF has_file_descriptors(m) THEN translate(m, vfd)
                        ELSE 0 - 1
         IN IF real_fd < 0
            THEN Done(set_result(m, 0 - EBADF))
            ELSE writev_loop(Done(m), 0, real_fd, iov, 1, hows)

\* The running sums of the numbers lo..hi of a list (lo <= hi).
RECURSIVE PrefixRange(_, _, _)
PrefixRange(c, lo, hi) ==
    IF lo = hi THEN << c[lo] >>
    ELSE LET mid == (lo + hi) \div 2
             l == PrefixRange(c, lo, mid)
             r == PrefixRange(c, mid + 1, hi)
         IN l \o [k \in 1..Len(r) |-> r[k] + l[Len(l)]]

\* The loop of syscall_readv: the spans of each iovec are gathered and
\* put into vec; the first iovec whose gather raises, or whose spans no
\* longer fit (vec.at() raises), ends the call.
readv_gather(iov) ==
    LET g == [i \in 1..Len(iov) |->
                gather_buffers_from_range(GatherMax, iov[i].iov_base, iov[i].iov_len)]
        spans == [i \in 1..Len(iov) |-> g[i].spans]
        held == PrefixRange([i \in 1..Len(iov) |-> Len(spans[i])], 1, Len(iov))
        bad == { i \in 1..Len(iov) : g[i].exc # "none" \/ held[i] > ReadvVecMax }
        stop == CHOOSE i \in bad : \A j \in bad : i <= j
    IN IF bad = {} THEN [exc |-> "none", vec |-> Flatten(spans)]
       ELSE IF g[stop].exc # "none" THEN [exc |-> g[stop].exc, vec |-> << >>]
       ELSE [exc |-> "out_of_range", vec |-> << >>]

\* The host's readv(2): it fails (EBADF) or reads as much as the spans hold.
host_readv(m, fd, vec, how) ==
    IF how = "fail" THEN [m |-> [m EXCEPT !.errno = EBADF], ret |-> 0 - 1]
    ELSE IF how = "zero" THEN [m |-> m, ret |-> 0]
    ELSE [m |-> m, ret |-> SpanLen(vec)]

\* syscall_readv
syscall_readv(m, vfd, iov, count, how) ==
    IF count < 1 \/ count > ReadvMax
    THEN Done(set_result(m, 0 - EINVAL))
    ELSE LET real_fd == IF vfd = 1 \/ vfd = 2 THEN 0 - 1
                        ELSE IF has_file_descriptors(m) THEN translate(m, vfd)
                        ELSE 0 - 1
         IN IF real_fd < 0
            THEN Done(set_result(m, 0 - EBADF))
            ELSE LET g == readv_gather(iov)
                     h == host_readv(m, real_fd, g.vec, how)
                 IN IF g.exc # "none" THEN Raised(m, g.exc)
                    ELSE [Done(set_result_or_error(h.m, h.ret))
                            EXCEPT !.host_called = TRUE, !.host_ret = h.ret,
                                   !.calls = << [fd |-> real_fd, spans |-> g.vec] >>,
                                   !.copied = IF h.ret > 0 THEN g.vec ELSE << >>]

\* The byte the host's random source delivers at position i.
RandomByte(i) == (i * 11 + 7) % 256

\* syscall_getrandom.  On OpenBSD arc4random_buf fills the need bytes and
\* result is 0; elsewhere result is what the host's getrandom returns for
\* the need bytes it is asked for, and that many bytes are in the buffer.
syscall_getrandom(m, g_addr, g_len, answer, openbsd) ==
    IF g_len > RandomMax
    THEN Done(set_result(m, 0 - 1))
    ELSE LET need == Min(g_len, RandomMax)
             result == IF openbsd THEN 0 ELSE answer
             delivered == IF openbsd THEN need ELSE Max(answer, 0)
         IN [Done(set_result(m, result))
               EXCEPT !.host_called = TRUE, !.host_ret = result,
                      !.calls = << [need |-> need, delivered |-> delivered] >>,
                      !.copied = IF result > 0
                                 THEN << [addr |-> g_addr,
                                          bytes |-> [i \in 1..result |-> RandomByte(i)]] >>
                                 ELSE << >>]

\* A machine whose table holds the two ends of a pipe, in a host that
\* started with the descriptors host_open.
PipeMachine(host_open) ==
    syscall_pipe2(setup_linux_syscalls(NewMachine(host_open, HeapLow), TRUE, FALSE), 0).m

\* The guest ranges an iovec names: "hello\n", nothing, and one page more
\* than the spans a gather holds.
Hello == [iov_base |-> 1, iov_len |-> 6]
Empty == [iov_base |-> 0, iov_len |-> 0]
Long == [iov_base |-> 0, iov_len |-> (GatherMax + 1) * PageSize]

\* The iovec arrays a guest passes to writev.
WritevArrays ==
    { << >>, << Hello >>, << Hello, Hello >>, << Hello, Empty, Hello >>,
      << Long >>, << Hello, Long >> }

\* What the host does with each writev of a call: all succeed, or one fails.
HostHows(iov) ==
    { [i \in 1..Len(iov) |-> IF i = f THEN "fail" ELSE "full"] : f \in 0..Len(iov) }

\* The iovec arrays a guest passes to readv: count entries of so many pages.
ReadvArray(count, pages) == [i \in 1..count |-> [iov_base |-> 0, iov_len |-> pages * PageSize]]

\* The guest puts its first argument in a0 and makes the call.
SysWrite(vfd, address, len, pw, how) ==
    /\ vfd \in Vfds
    /\ LET m == [sys EXCEPT !.a0 = vfd]
       IN Entered(m, "write", [vfd |-> vfd, address |-> address, len |-> len, pw |-> pw],
                  syscall_write(m, vfd, address, len, pw, how))

\* pw is what permit_write(vfd) would answer; syscall_writev does not ask.
SysWritev(vfd, iov, count, pw, hows) ==
    /\ vfd \in Vfds
    /\ LET m == [sys EXCEPT !.a0 = vfd]
       IN Entered(m, "writev",
                  [vfd |-> vfd, iov |-> iov, count |-> count, pw |-> pw, hows |-> hows],
                  syscall_writev(m, vfd, iov, count, hows))

SysReadv(vfd, iov, count, how) ==
    /\ vfd \in Vfds
    /\ LET m == [sys EXCEPT !.a0 = vfd]
       IN Entered(m, "readv", [vfd |-> vfd, iov |-> iov, count |-> count, how |-> how],
                  syscall_readv(m, vfd, iov, count, how))

SysGetrandom(g_addr, g_len, answer, openbsd) ==
    /\ answer <= g_len
    /\ openbsd => answer = 0
    /\ LET m == [sys EXCEPT !.a0 = g_addr]
       IN Entered(m, "getrandom", [g_addr |-> g_addr, g_len |-> g_len, openbsd |-> openbsd],
                  syscall_getrandom(m, g_addr, g_len, answer, openbsd))

\* The guest's descriptors: stdout, an end of the pipe, and one not open.
IoVfds == {1, 3, 5}

NextIo ==
    \/ \E vfd \in IoVfds, address \in {0, 1}, pw \in BOOLEAN, how \in {"full", "fail"},
          len \in {6, GatherMax * PageSize} :
          SysWrite(vfd, address, len, pw, how)
    \/ \E vfd \in IoVfds, iov \in WritevArrays, pw \in BOOLEAN :
          \E hows \in HostHows(iov) : SysWritev(vfd, iov, Len(iov), pw, hows)
    \/ \E vfd \in IoVfds, count \in {0 - 1, WritevMax + 1}, pw \in BOOLEAN :
          SysWritev(vfd, << >>, count, pw, << >>)
    \/ \E vfd \in IoVfds, how \in HostAnswers, pages \in {1, GatherMax},
          count \in {1, 5, ReadvMax} :
          SysReadv(vfd, ReadvArray(count, pages), count, how)
    \/ \E vfd \in IoVfds, count \in {0, ReadvMax + 1} :
          SysReadv(vfd, << >>, count, "full")

NextRand ==
    \E g_addr \in {0, 8}, g_len \in {0, 1, 128, RandomMax, RandomMax + 1, 512},
       answer \in {0 - 1, 0, 1, 128, RandomMax}, openbsd \in BOOLEAN :
       SysGetrandom(g_addr, g_len, answer, openbsd)

(* ------------------------------------------------------------------ *)
(* System calls: sigaltstack, rt_sigaction, kill, brk                    *)
(* ------------------------------------------------------------------ *)

\* #define SA_ONSTACK 0x08000000
SA_ONSTACK == 134217728

\* handler & ~0xF
ClearLow4(handler) == handler - (handler % 16)

\* (sa_flags & SA_ONSTACK) != 0
OnStack(sa_flags) == (sa_flags \div SA_ONSTACK) % 2 = 1

\* Machine::sigaction: the action of a signal in the process-wide table.
sigaction(m, sig) == m.sigactions[sig]

\* SignalAction::is_unset
is_unset(act) == act.handler = 0

\* syscall_sigaltstack; new is the stack_t the guest holds at ss.  The old
\* stack is copied out before the new one is read, so with ss = old_ss the
\* guest's struct is overwritten before it is read.
syscall_sigaltstack(m, ss, old_ss, new) ==
    LET stack == m.altstack
        read == IF old_ss # 0 /\ ss = old_ss THEN stack ELSE new
        m1 == IF ss # 0 THEN [m EXCEPT !.altstack = read] ELSE m
    IN [Done(set_result(m1, 0))
          EXCEPT !.copied = IF old_ss # 0 THEN << [addr |-> old_ss, stack |-> stack] >>
                            ELSE << >>]

\* syscall_sigaction; new is the kernel_sigaction the guest holds at action.
syscall_sigaction(m, sig, action, old_action, new) ==
    IF sig = 0 THEN Done(m)
    ELSE LET sigact == sigaction(m, sig)
             old == [sa_handler |-> ClearLow4(sigact.handler),
                     sa_flags |-> IF sigact.altstack THEN SA_ONSTACK ELSE 0,
                     sa_mask |-> sigact.mask]
             sa == IF old_action # 0 /\ action = old_action THEN old ELSE new
             m1 == IF action # 0
                   THEN [m EXCEPT !.sigactions[sig] =
                            [handler |-> sa.sa_handler,
                             altstack |-> OnStack(sa.sa_flags),
                             mask |-> sa.sa_mask]]
                   ELSE m
         IN [Done(set_result(m1, 0))
               EXCEPT !.copied = IF old_action # 0
                                 THEN << [addr |-> old_action, sa |-> old] >>
                                 ELSE << >>]

\* Signals::enter: the current PC becomes the return address, PC the
\* handler, and SP the top of the altstack when the action asks for it and
\* an altstack is configured.
enter(m, sig) ==
    LET act == sigaction(m, sig)
    IN [m EXCEPT !.ra = m.pc,
                 !.pc = act.handler,
                 !.sp = IF act.altstack /\ m.altstack.ss_size > 0
                        THEN m.altstack.ss_sp + m.altstack.ss_size
                        ELSE @]

\* Machine::stop
stop(m) == [m EXCEPT !.stopped = TRUE]

\* A handler of syscall 130 that goes on to machine.stop() after the jump.
syscall_kill_stops(m, pid, sig) ==
    IF sig = 0 \/ is_unset(sigaction(m, sig))
    THEN Done(m)
    ELSE Done(stop(enter(m, sig)))

\* The handler of syscall 130: both branches return before machine.stop().
syscall_kill(m, pid, sig) ==
    IF sig = 0 \/ is_unset(sigaction(m, sig))
    THEN Done(m)
    ELSE Done(enter(m, sig))

\* Memory::BRK_MAX, in the scale of AddrMod.
BRK_MAX == 4096

\* A heap whose distance to the end of the address space is below BRK_MAX.
HeapHigh == 63488

\* syscall_brk; the sum is taken in address_type, modulo AddrMod.
syscall_brk(m, x) ==
    LET heap == m.heap_address
        top == (heap + BRK_MAX) % AddrMod
        new_end == IF x > top THEN top
                   ELSE IF x < heap THEN heap
                   ELSE x
    IN Done(set_result(m, new_end))

\* The kernel_sigaction structs of a guest: handler, flags (SA_ONSTACK with
\* and without SA_SIGINFO = 4), mask.
GuestActions ==
    [sa_handler : {0, 4660}, sa_flags : {0, SA_ONSTACK + 4}, sa_mask : {0, 15}]

\* The two handlers a guest installs before it is sent signals.
KillActions ==
    { [sa_handler |-> 4660, sa_flags |-> 0, sa_mask |-> 0],
      [sa_handler |-> 9024, sa_flags |-> SA_ONSTACK, sa_mask |-> 15] }

\* The stack_t structs of a guest.
GuestStacks == { [ss_sp |-> 1024, ss_size |-> 256] }

SysSigaltstack(ss, old_ss, new) ==
    /\ ss = 0 => new = [ss_sp |-> 0, ss_size |-> 0]
    /\ LET m == [sys EXCEPT !.a0 = ss]
       IN Entered(m, "sigaltstack", [ss |-> ss, old_ss |-> old_ss, new |-> new],
                  syscall_sigaltstack(m, ss, old_ss, new))

SysSigaction(sig, action, old_action, new) ==
    /\ sig \in 0..MaxSig
    /\ action = 0 => new = [sa_handler |-> 0, sa_flags |-> 0, sa_mask |-> 0]
    /\ LET m == [sys EXCEPT !.a0 = sig]
       IN Entered(m, "sigaction",
                  [sig |-> sig, action |-> action, old_action |-> old_action, new |-> new],
                  syscall_sigaction(m, sig, action, old_action, new))

SysKill(pid, sig) ==
    /\ sig \in 0..MaxSig
    /\ LET m == [sys EXCEPT !.a0 = pid]
       IN Entered(m, "kill", [pid |-> pid, sig |-> sig], syscall_kill(m, pid, sig))

SysBrk(x) ==
    /\ x \in 0..(AddrMod - 1)
    /\ LET m == [sys EXCEPT !.a0 = x]
       IN Entered(m, "brk", [x |-> x], syscall_brk(m, x))

\* rt_sigaction with every argument.
NextSig ==
    \E sig \in 0..MaxSig, action \in {0, 256}, old_action \in {0, 256, 512},
       new \in GuestActions \cup {[sa_handler |-> 0, sa_flags |-> 0, sa_mask |-> 0]} :
       SysSigaction(sig, action, old_action, new)

\* A guest installs handlers and an altstack and is sent signals.
NextKill ==
    \/ \E sig \in 1..MaxSig, new \in KillActions : SysSigaction(sig, 256, 0, new)
    \/ \E new \in GuestStacks : SysSigaltstack(768, 0, new)
    \/ \E sig \in 0..MaxSig : SysKill(1, sig)

\* The addresses a guest asks brk for: around every 512th address.
BrkArgs == { k * 512 + d : k \in 0..127, d \in {0, 1, 511} }

NextBrk == \E x \in BrkArgs : SysBrk(x)

\* Machines whose heap is low and whose heap is near the end of the
\* address space.
InitBrk ==
    /\ sys \in { NewMachine(StdFds, HeapLow), NewMachine(StdFds, HeapHigh) }
    /\ slast = SIdle

\* Machines without a table, with a table, and with a table in a host
\* whose descriptors 1 and 2 were free.
InitIo ==
    /\ sys \in { NewMachine(StdFds, HeapLow), PipeMachine(StdFds), PipeMachine({0}) }
    /\ slast = SIdle

(* ------------------------------------------------------------------ *)
(* Memory::lookup                                                        *)
(* ------------------------------------------------------------------ *)

\* The most symbols in a symbol table of the model.
MaxSyms == 2

\* A Callsite that was value-initialized.
NoCallsite == [name |-> 0, address |-> 0, offset |-> 0]

\* The lambda result of lookup; the name is that of the i-th symbol.
Callsite(symtab, addr, i) ==
    [name |-> i, address |-> symtab[i].st_value, offset |-> addr - symtab[i].st_value]

\* The loop of lookup from symbol i on; best is the index of the best guess
\* so far, 0 for nullptr.
RECURSIVE lookup_loop(_, _, _, _)
lookup_loop(symtab, address, i, best) ==
    IF i > Len(symtab)
    THEN IF best # 0 THEN Callsite(symtab, address, best) ELSE NoCallsite
    ELSE IF symtab[i].st_type # "STT_FUNC"
    THEN lookup_loop(symtab, address, i + 1, best)
    ELSE IF /\ address >= symtab[i].st_value
            /\ address < (symtab[i].st_value + symtab[i].st_size) % AddrMod
    THEN Callsite(symtab, address, i)
    ELSE IF address > symtab[i].st_value
    THEN lookup_loop(symtab, address, i + 1, i)
    ELSE lookup_loop(symtab, address, i + 1, best)

\* Memory::lookup on a binary with the sections of elf.
lookup(elf, address) ==
    IF ".symtab" \notin elf.sections THEN NoCallsite
    ELSE IF ".strtab" \notin elf.sections THEN NoCallsite
    ELSE IF address = 0 THEN NoCallsite
    ELSE lookup_loop(elf.symtab, address, 1, 0)

\* The symbols of the model: functions and objects at 4 and 8, empty, two
\* and six bytes long.
Symbols ==
    [st_value : {4, 8}, st_size : {0, 2, 6}, st_type : {"STT_FUNC", "STT_OBJECT"}]

\* The symbol tables: up to MaxSyms symbols in any order.
SymbolTables == UNION { [1..n -> Symbols] : n \in 0..MaxSyms }

\* The sections an ELF file may hold.
SectionSets == { {".symtab", ".strtab"}, {".symtab"}, {".strtab"}, {} }

NoLookup == [elf |-> [sections |-> {}, symtab |-> << >>], address |-> 0, ret |-> NoCallsite]

\* No lookup was made.
QuietLook == look = NoLookup

\* An ELF file with a symbol table is given to Memory.
InitLookup ==
    /\ look \in { [NoLookup EXCEPT !.elf = [sections |-> s, symtab |-> t]] :
                    s \in SectionSets, t \in SymbolTables }

Lookup(address) ==
    /\ look.address # address
    /\ look' = [look EXCEPT !.address = address, !.ret = lookup(look.elf, address)]
    /\ UNCHANGED << dcVars, memVars, sysVars, patch, thr >>

NextLookup == \E address \in 0..15 : Lookup(address)

(* ------------------------------------------------------------------ *)
(* Live patching of a descriptor                                         *)
(* ------------------------------------------------------------------ *)

\* A byte that the dispatching thread has not read yet.
Unread == 0 - 1

\* (handler_idx << 8) | bytecode of two uint8_t, as a uint16_t.
PatchValue(bytecode, handler_idx) == (handler_idx * 256 + bytecode) % 65536

\* The pair that get_bytecode() and get_handler() read from a descriptor.
PairOf(d) == << d.m_bytecode, d.m_handler >>

NoPatch == [d |-> ZeroData, before |-> ZeroData, bytecode |-> 0, handler_idx |-> 0,
            wpc |-> "idle", rb |-> Unread, rh |-> Unread]

QuietPatch == patch = NoPatch

\* A descriptor of a built cache.
InitPatch ==
    patch \in { [NoPatch EXCEPT !.d = d, !.before = d] :
                   d \in [m_bytecode : {0, 3}, m_handler : {0, 3}, idxend : {1},
                          icount : {0}, instr : {19}] }

\* The patching thread enters set_atomic_bytecode_and_handler.
PatchCall(bytecode, handler_idx) ==
    /\ patch.wpc = "idle"
    /\ patch' = [patch EXCEPT !.wpc = "called", !.before = patch.d,
                              !.bytecode = bytecode, !.handler_idx = handler_idx]
    /\ UNCHANGED << dcVars, memVars, sysVars, look, thr >>

\* The store through the uint16_t pointer. It is a plain store that races
\* with the reads of the other thread, so the two bytes become visible at
\* once or one after the other, in either order.
PatchStore(how) ==
    /\ \/ patch.wpc = "called"
       \/ patch.wpc = "low" /\ how = "high"
       \/ patch.wpc = "high" /\ how = "low"
    /\ LET v == PatchValue(patch.bytecode, patch.handler_idx)
           lo == [patch.d EXCEPT !.m_bytecode = v % 256]
           hi == [patch.d EXCEPT !.m_handler = v \div 256]
       IN patch' = CASE how = "word" ->
                          [patch EXCEPT !.d = [lo EXCEPT !.m_handler = v \div 256],
                                        !.wpc = "stored"]
                     [] how = "low" ->
                          [patch EXCEPT !.d = lo,
                                        !.wpc = IF patch.wpc = "called" THEN "low" ELSE "stored"]
                     [] how = "high" ->
                          [patch EXCEPT !.d = hi,
                                        !.wpc = IF patch.wpc = "called" THEN "high" ELSE "stored"]
    /\ UNCHANGED << dcVars, memVars, sysVars, look, thr >>

\* set_atomic_bytecode_and_handler returns.
PatchReturn ==
    /\ patch.wpc = "stored"
    /\ patch' = [patch EXCEPT !.wpc = "done"]
    /\ UNCHANGED << dcVars, memVars, sysVars, look, thr >>

\* The dispatching thread calls get_bytecode() while the patch is under way.
ReadBytecode ==
    /\ patch.wpc \in {"called", "low", "high", "stored"}
    /\ patch.rb = Unread
    /\ patch' = [patch EXCEPT !.rb = patch.d.m_bytecode]
    /\ UNCHANGED << dcVars, memVars, sysVars, look, thr >>

\* The dispatching thread reads m_handler in get_handler() while the patch
\* is under way.
ReadHandler ==
    /\ patch.wpc \in {"called", "low", "high", "stored"}
    /\ patch.rh = Unread
    /\ patch' = [patch EXCEPT !.rh = patch.d.m_handler]
    /\ UNCHANGED << dcVars, memVars, sysVars, look, thr >>

NextPatch ==
    \/ \E bytecode \in {1, 2}, handler_idx \in {1, 2} : PatchCall(bytecode, handler_idx)
    \/ \E how \in {"word", "low", "high"} : PatchStore(how)
    \/ PatchReturn
    \/ ReadBytecode
    \/ ReadHandler

(* ------------------------------------------------------------------ *)
(* Two threads in set_handler                                            *)
(* ------------------------------------------------------------------ *)

\* The threads that construct a Machine each.
Threads == {1, 2}

NoThread == [pc |-> "idle", d |-> ZeroData, h |-> NULL, idx |-> 0]

QuietThreads == thr = [t \in Threads |-> NoThread]

QuietAux == QuietLook /\ QuietPatch /\ QuietThreads

\* Thread t calls set_handler(insn) on a descriptor of its own cache.
ThrCall(t, e) ==
    /\ thr[t].pc = "idle"
    /\ thr' = [thr EXCEPT ![t] = [pc |-> "find", d |-> [ZeroData EXCEPT !.instr = e],
                                  h |-> Decode(e), idx |-> 0]]
    /\ UNCHANGED << dcVars, memVars, sysVars, look, patch >>

\* handler_index_for looks the handler up in handler_cache.
ThrFind(t) ==
    /\ thr[t].pc = "find"
    /\ thr' = [thr EXCEPT ![t] =
                  IF thr[t].h \in DOMAIN handler_cache
                  THEN [thr[t] EXCEPT !.pc = "store", !.idx = handler_cache[thr[t].h]]
                  ELSE [thr[t] EXCEPT !.pc = "alloc"]]
    /\ UNCHANGED << dcVars, memVars, sysVars, look, patch >>

\* handler_index_for takes the next free index and binds the handler to it.
ThrAlloc(t) ==
    /\ thr[t].pc = "alloc"
    /\ thr' = [thr EXCEPT ![t].pc = "publish", ![t].idx = handler_count + 1]
    /\ instr_handlers' = _assign_handler(instr_handlers, handler_count + 1, thr[t].h)
    /\ UNCHANGED << proc, caches, handler_count, handler_cache, inst_handler_mapping,
                    file, last, seen, memVars, sysVars, look, patch >>

\* handler_index_for counts the handler and enters it into handler_cache
\* (emplace keeps an entry that is already there).
ThrPublish(t) ==
    /\ thr[t].pc = "publish"
    /\ thr' = [thr EXCEPT ![t].pc = "store"]
    /\ handler_count' = thr[t].idx
    /\ handler_cache' = IF thr[t].h \in DOMAIN handler_cache THEN handler_cache
                        ELSE Put(handler_cache, thr[t].h, thr[t].idx)
    /\ UNCHANGED << proc, caches, instr_handlers, inst_handler_mapping,
                    file, last, seen, memVars, sysVars, look, patch >>

\* set_insn_handler stores the index, set_handler records the encoding.
ThrStore(t) ==
    /\ thr[t].pc = "store"
    /\ LET d == [thr[t].d EXCEPT !.m_handler = thr[t].idx % 256]
       IN /\ thr' = [thr EXCEPT ![t].pc = "done", ![t].d = d]
          /\ inst_handler_mapping' = Put(inst_handler_mapping, d.m_handler, d.instr)
    /\ UNCHANGED << proc, caches, instr_handlers, handler_count, handler_cache,
                    file, last, seen, memVars, sysVars, look, patch >>

NextThreads ==
    \E t \in Threads :
        \/ \E e \in ValidEncodings : ThrCall(t, e)
        \/ ThrFind(t)
        \/ ThrAlloc(t)
        \/ ThrPublish(t)
        \/ ThrStore(t)

Init == InitDC /\ InitMem /\ InitSys /\ QuietAux

Next == NextDC \/ NextMem \/ NextElf \/ NextFd \/ NextIo \/ NextRand \/ NextSig \/ NextKill \/ NextBrk \/ NextLookup \/ NextLoad \/ NextPatch \/ NextThreads \/ NextDesc \/ NextPath

Spec == Init /\ [][Next]_vars

\* The processes start beside a Memory that has no binary.
InitCaches == InitDC /\ InitMem /\ m_binary = << >> /\ QuietSys /\ QuietAux

\* A machine makes system calls; no decoder cache, no binary.
InitMachine == InitDC /\ caches = << >> /\ InitMem /\ m_binary = << >> /\ InitSys /\ QuietAux

\* A Memory is constructed with an ELF file; no decoder cache, no system call.
InitElfMemory == InitDC /\ caches = << >> /\ InitElf /\ QuietSys /\ QuietAux

\* A Memory with an ELF file that has symbols; nothing else runs.
InitLookupMemory == InitDC /\ caches = << >> /\ InitMem /\ m_binary = << >> /\ QuietSys /\ InitLookup
                    /\ QuietPatch /\ QuietThreads

\* Two threads are about to construct a Machine each; the registry is fresh.
InitThreads == InitDC /\ caches = << >> /\ InitMem /\ m_binary = << >> /\ QuietSys /\ QuietAux

\* One thread patches a descriptor that another thread dispatches.
InitPatched == InitDC /\ caches = << >> /\ InitMem /\ m_binary = << >> /\ QuietSys
               /\ QuietLook /\ InitPatch /\ QuietThreads

\* A machine with a heap makes brk calls; no decoder cache, no binary.
InitBrkMachine == InitDC /\ caches = << >> /\ InitMem /\ m_binary = << >> /\ InitBrk /\ QuietAux

\* A machine with or without a table of descriptors reads and writes.
InitIoMachine == InitDC /\ caches = << >> /\ InitMem /\ m_binary = << >> /\ InitIo /\ QuietAux

\* A Memory is constructed in a process that holds no decoder cache.
InitMemory == InitDC /\ InitMem /\ caches = << >> /\ QuietSys /\ QuietAux

(* ------------------------------------------------------------------ *)
(* Claims about the decoder cache                                        *)
(* ------------------------------------------------------------------ *)

\* The processes that build, save and load decoder caches.
SpecDC == InitCaches /\ [][NextDC]_vars

\* One process whose handler indices all come from set_handler.
SpecReg == InitCaches /\ [][NextReg]_vars

\* The operations of one Memory.
SpecMem == InitMemory /\ [][NextMem]_vars

\* The last operation loaded the file with the loader of the file's own
\* form, for the file's n and the file's length.
LoadedOwnFile ==
    /\ last.op \in {"de_raw", "de_man"}
    /\ last.kind = (IF last.op = "de_raw" THEN "raw" ELSE "portable")
    /\ last.n = file.n
    /\ last.L = Len(file.bytes)

\* C1: in both forms and for every n >= 0, deserializing what the serializer
\* wrote for the caches C succeeds and yields n caches whose descriptors
\* equal those of C in all eight bytes.
C1_RoundTrip ==
    LoadedOwnFile =>
        /\ last.ok
        /\ Len(caches) = file.n
        /\ \A p \in 1..file.n, i \in 1..SIZE :
              MemImage(caches[p][i]) = MemImage(file.src[p][i])

\* C2: after a serialized cache has been deserialized, in either form, every
\* slot with a non-zero handler index resolves through instr_handlers to the
\* handler that decoding the slot's encoding yields.
C2_HandlersRebound ==
    (LoadedOwnFile /\ last.ok) =>
        \A p \in 1..Len(caches), i \in 1..SIZE :
            caches[p][i].m_handler # 0 =>
                get_handler(instr_handlers, caches[p][i]) = Decode(caches[p][i].instr)

\* C3: the raw loader throws and installs no handler when L is less than
\* n*SIZE*8 + 1, and the portable loader throws when the byte count is not
\* n*SIZE*8.
C3_LengthRefused ==
    /\ (last.op = "de_raw" /\ last.L < last.n * SIZE * DescSize + 1)
          => (~last.ok /\ last.assigned = 0)
    /\ (last.op = "de_man" /\ last.L # last.n * SIZE * DescSize) => ~last.ok

\* C4: within a process, index 0 of instr_handlers is never bound, and an
\* index k >= 1 that is bound to a function is never bound to another one.
C4_NeverRebound ==
    /\ [](0 \notin DOMAIN instr_handlers)
    /\ [][proc' = proc =>
            \A k \in DOMAIN instr_handlers :
                k \in DOMAIN instr_handlers' /\ instr_handlers'[k] = instr_handlers[k]]_vars

\* C5: in a process whose handler indices all come from set_handler, equal
\* handlers were always given equal indices, the indices given are 1, 2, ...
\* in the order the handlers were first seen, and inst_handler_mapping holds
\* for each of them an encoding that decodes to the handler bound there.
C5_StableIndices ==
    /\ \A a, b \in seen : a[1] = b[1] => a[2] = b[2]
    /\ { a[2] : a \in seen } = 1..Cardinality({ a[1] : a \in seen })
    /\ DOMAIN inst_handler_mapping = { a[2] : a \in seen }
    /\ \A a \in seen :
          /\ HandlerAt(instr_handlers, a[2]) = a[1]
          /\ Decode(inst_handler_mapping[a[2]]) = a[1]

\* Two slots built from different encodings of one handler share the second
\* index handed out.
C5_Witness ==
    /\ Len(caches) >= 1
    /\ caches[1][1].instr = 51 /\ caches[1][2].instr = 307
    /\ caches[1][1].m_handler = 2 /\ caches[1][2].m_handler = 2
    /\ Cardinality(seen) = 2

(* ------------------------------------------------------------------ *)
(* Claims about guest memory                                             *)
(* ------------------------------------------------------------------ *)

\* C6: while the Memory lives, page number 0 is in the page table and is
\* neither readable nor writable nor executable.
C6_ZeroPageDenied ==
    mem.alive =>
        /\ 0 \in DOMAIN mem.m_pages
        /\ LET a == AttrOf(mem, mem.m_pages[0])
           IN ~a.read /\ ~a.write /\ ~a.exec

\* C7: allocate_page fails with OutOfMemory and inserts nothing when
\* pages_active >= pages_total, default_page_fault allocates only below
\* pages_total, and so pages_active never exceeds pages_total.
C7_QuotaKept ==
    /\ (mlast.op = "allocate_page" /\ mlast.active_before >= pages_total(mem))
          => (mlast.exc = "OutOfMemory" /\ ~mlast.changed)
    /\ (mlast.op = "default_page_fault" /\ mlast.exc = "none")
          => mlast.active_before < pages_total(mem)
    /\ pages_active(mem) <= pages_total(mem)

\* C8: every Page that Memory allocated and has not freed is mapped in the
\* page table (none is leaked), all are freed once the Memory is destroyed,
\* none is freed twice, and no page of a caller is freed by Memory.
C8_PagesFreedOnce ==
    /\ \A id \in mem.live : \E pg \in DOMAIN mem.m_pages : mem.m_pages[pg] = id
    /\ ~mem.alive => mem.live = {}
    /\ ~mem.double_free
    /\ ~mem.foreign_freed

\* C9: install_shared_page fails with IllegalOperation and leaves the page
\* table as it was when the page at page_no is not COW or the given page is
\* not shared; in every other case the given page is then mapped at page_no.
C9_SharedPageInstalled ==
    mlast.op = "install_shared_page" =>
        IF ~mlast.cow_before \/ ~AttrOf(mem, mlast.arg).shared
        THEN mlast.exc = "IllegalOperation" /\ ~mlast.changed
        ELSE mlast.exc = "none" /\ get_pageno(mem, mlast.page) = mlast.arg

\* C10: a cached read page or write page is the page that is mapped at its
\* page number.
C10_CachesCoherent ==
    /\ mem.m_current_rd_page # -1 =>
          mem.m_current_rd_ptr = get_pageno(mem, mem.m_current_rd_page)
    /\ mem.m_current_wr_page # -1 =>
          mem.m_current_wr_ptr = get_pageno(mem, mem.m_current_wr_page)

(* ------------------------------------------------------------------ *)
(* Claims about the system calls                                         *)
(* ------------------------------------------------------------------ *)

\* The system calls that open and close descriptors.
SpecFd == InitMachine /\ [][NextFd]_vars

\* C11: close on a vfd of the table other than 0, 1, 2 removes the entry,
\* closes its real descriptor and returns 0; close on 0, 1, 2 returns 0 and
\* changes nothing; close on an unknown vfd returns -EBADF; the destructor
\* closes the real descriptor of every entry that is left; and no close is
\* made on a descriptor that is not open.
C11_ClosedOnce ==
    /\ slast.op = "close" =>
          LET b == slast.before
              vfd == slast.arg.vfd
          IN IF vfd \in StdFds
             THEN sys.a0 = 0 /\ sys.translation = b.translation
                             /\ sys.host_open = b.host_open
             ELSE IF vfd \in DOMAIN b.translation
             THEN /\ sys.a0 = 0
                  /\ vfd \notin DOMAIN sys.translation
                  /\ b.translation[vfd] \notin sys.host_open
             ELSE sys.a0 = 0 - EBADF
    /\ slast.op = "destroy" =>
          \A v \in DOMAIN slast.before.translation :
              slast.before.translation[v] \notin sys.host_open
    /\ ~sys.bad_close

\* C12: openat without a table or with permit_filesystem off returns -EBADF
\* and makes no host call; a path that filter_open rejects returns -EPERM,
\* makes no host call and leaves the table alone; otherwise a descriptor
\* that the host opened is given a new vfd >= 3, which is returned, and a
\* failure of the host returns its negated errno.
C12_OpenatAssigns ==
    slast.op = "openat" =>
        LET b == slast.before
        IN IF ~b.has_fds \/ ~b.permit_filesystem
           THEN sys.a0 = 0 - EBADF /\ ~slast.host_called
           ELSE IF b.filter_open /\ slast.arg.path \in FilterRejects
           THEN /\ sys.a0 = 0 - EPERM /\ ~slast.host_called
                /\ sys.translation = b.translation
           ELSE IF slast.host_ret >= 0
           THEN /\ sys.a0 >= FirstVfd
                /\ sys.a0 \notin DOMAIN b.translation
                /\ sys.a0 \in DOMAIN sys.translation
                /\ sys.translation[sys.a0] = slast.host_ret
           ELSE sys.a0 = 0 - sys.errno

\* The system calls that move bytes.
SpecIo == InitIoMachine /\ [][NextIo]_vars

\* getrandom alone.
SpecRand == InitMachine /\ [][NextRand]_vars

\* C13: write on vfd 1 or 2 passes exactly the len bytes of the guest range
\* to print, in address order, and returns len; on another vfd the host's
\* writev is called only with a table and permit_write(vfd), and otherwise
\* the call returns -EBADF without a host write.
C13_WriteForwards ==
    slast.op = "write" =>
        LET b == slast.before
            a == slast.arg
        IN IF a.vfd = 1 \/ a.vfd = 2
           THEN /\ slast.exc = "none"
                /\ Flatten(slast.printed) = GuestBytes(a.address, a.len)
                /\ sys.a0 = a.len
                /\ slast.calls = << >>
           ELSE IF b.has_fds /\ a.pw
           THEN slast.printed = << >>
           ELSE sys.a0 = 0 - EBADF /\ slast.calls = << >> /\ slast.printed = << >>

\* The sum of the iov_len of an iovec array.
RECURSIVE IovLen(_)
IovLen(iov) == IF iov = << >> THEN 0 ELSE Head(iov).iov_len + IovLen(Tail(iov))

\* The iovecs of a writev call that the host's writev is given: up to the
\* first that fails or writes nothing.
RECURSIVE IovsWritten(_, _, _)
IovsWritten(iov, hows, i) ==
    IF i > Len(iov) THEN Len(iov)
    ELSE IF hows[i] # "full" \/ iov[i].iov_len = 0 THEN i
    ELSE IovsWritten(iov, hows, i + 1)

\* C14: writev with a count outside 0..256 returns -EINVAL and puts out
\* nothing; on vfd 1 or 2 the bytes of every iovec are printed in order and
\* the sum of the iov_len is returned; on another translatable vfd the
\* host's writev is called once per iovec in order up to the first that
\* fails or writes 0 bytes, and a failure returns the negated errno.
C14_WritevForwards ==
    slast.op = "writev" =>
        LET b == slast.before
            a == slast.arg
            n == IovsWritten(a.iov, a.hows, 1)
        IN IF a.count < 0 \/ a.count > WritevMax
           THEN sys.a0 = 0 - EINVAL /\ slast.printed = << >> /\ slast.calls = << >>
           ELSE IF a.vfd = 1 \/ a.vfd = 2
           THEN /\ slast.exc = "none"
                /\ Flatten(slast.printed)
                     = Flatten([i \in 1..a.count |->
                                  GuestBytes(a.iov[i].iov_base, a.iov[i].iov_len)])
                /\ sys.a0 = IovLen(a.iov)
                /\ slast.calls = << >>
           ELSE IF b.has_fds /\ translate(b, a.vfd) >= 0
           THEN /\ slast.exc = "none"
                /\ slast.printed = << >>
                /\ Len(slast.calls) = n
                /\ \A i \in 1..n :
                      /\ slast.calls[i].fd = translate(b, a.vfd)
                      /\ slast.calls[i].spans = SpansOf(a.iov[i].iov_base, a.iov[i].iov_len)
                /\ (n >= 1 /\ a.hows[n] = "fail") => sys.a0 = 0 - sys.errno
           ELSE TRUE

\* C15: readv with a count outside 1..128 returns -EINVAL and touches no
\* guest memory; on vfd 1 or 2 or without a table it returns -EBADF; with a
\* translatable vfd and iovecs of at most 64 spans each it makes one host
\* readv over the spans of all the iovecs in order and returns its result
\* or the negated errno, without raising.
C15_ReadvForwards ==
    slast.op = "readv" =>
        LET b == slast.before
            a == slast.arg
        IN IF a.count < 1 \/ a.count > ReadvMax
           THEN sys.a0 = 0 - EINVAL /\ slast.copied = << >> /\ ~slast.host_called
           ELSE IF a.vfd = 1 \/ a.vfd = 2 \/ ~b.has_fds
           THEN sys.a0 = 0 - EBADF /\ ~slast.host_called
           ELSE IF /\ translate(b, a.vfd) >= 0
                   /\ \A i \in 1..a.count :
                         Len(SpansOf(a.iov[i].iov_base, a.iov[i].iov_len)) <= GatherMax
           THEN /\ slast.exc = "none"
                /\ Len(slast.calls) = 1
                /\ slast.calls[1].fd = translate(b, a.vfd)
                /\ slast.calls[1].spans
                     = Flatten([i \in 1..a.count |->
                                  SpansOf(a.iov[i].iov_base, a.iov[i].iov_len)])
                /\ sys.a0 = (IF slast.host_ret < 0 THEN 0 - sys.errno ELSE slast.host_ret)
           ELSE TRUE

\* C18: getrandom for more than 256 bytes returns -1 and writes nothing to
\* the guest; otherwise the host is asked for exactly len bytes, the bytes
\* it delivers are copied to buf, no more and no fewer, and their number is
\* returned (128 for len = 128 when the host delivers 128).
C18_GetrandomBound ==
    slast.op = "getrandom" =>
        LET a == slast.arg
        IN IF a.g_len > RandomMax
           THEN sys.a0 = 0 - 1 /\ slast.copied = << >> /\ ~slast.host_called
           ELSE /\ slast.host_called
                /\ slast.calls[1].need = a.g_len
                /\ sys.a0 = slast.host_ret
                /\ LET r == slast.calls[1].delivered
                   IN r > 0 =>
                        /\ sys.a0 = r
                        /\ Len(slast.copied) = 1
                        /\ slast.copied[1].addr = a.g_addr
                        /\ slast.copied[1].bytes = [i \in 1..r |-> RandomByte(i)]

\* rt_sigaction alone.
SpecSig == InitMachine /\ [][NextSig]_vars

\* C16: rt_sigaction(sig, &new, NULL) stores {handler, ONSTACK bit of flags,
\* mask} for sig # 0, and rt_sigaction(sig, NULL, &old) reads the stored
\* action back as old.sa_handler = handler, old.sa_flags = SA_ONSTACK or 0,
\* old.sa_mask = mask, and leaves the stored action unchanged; so a handler
\* 0x1234 set by the first call is read back as 0x1234 by the second.
C16_SigactionRoundTrip ==
    (slast.op = "sigaction" /\ slast.arg.sig # 0) =>
        LET b == slast.before
            a == slast.arg
            was == b.sigactions[a.sig]
        IN /\ (a.action # 0 /\ a.old_action = 0) =>
                 sys.sigactions[a.sig] = [handler |-> a.new.sa_handler,
                                          altstack |-> OnStack(a.new.sa_flags),
                                          mask |-> a.new.sa_mask]
           /\ (a.action = 0 /\ a.old_action # 0) =>
                 /\ sys.sigactions = b.sigactions
                 /\ slast.copied = << [addr |-> a.old_action,
                                       sa |-> [sa_handler |-> was.handler,
                                               sa_flags |-> IF was.altstack
                                                            THEN SA_ONSTACK ELSE 0,
                                               sa_mask |-> was.mask]] >>

\* brk alone.
SpecBrk == InitBrkMachine /\ [][NextBrk]_vars

\* C17: brk(x) returns x when x is in [heap_address, heap_address + BRK_MAX],
\* heap_address when x is below heap_address, heap_address + BRK_MAX when x
\* is above; the result lies in the interval (modulo the address space),
\* and brk(0) returns heap_address.
C17_BrkClamp ==
    slast.op = "brk" =>
        LET heap == slast.before.heap_address
            x == slast.arg.x
            top == (heap + BRK_MAX) % AddrMod
            wraps == heap + BRK_MAX >= AddrMod
        IN /\ (sys.a0 - heap) % AddrMod <= BRK_MAX
           /\ (x >= heap /\ x - heap <= BRK_MAX) => sys.a0 = x
           /\ (x >= heap /\ x - heap > BRK_MAX) => sys.a0 = heap + BRK_MAX
           /\ (x < heap /\ ~(wraps /\ x <= top)) => sys.a0 = heap
           /\ x = 0 => sys.a0 = heap

\* Handlers and an altstack are installed and signals are sent.
SpecKill == InitMachine /\ [][NextKill]_vars

\* C19: syscall 130 with signal 0 or a signal whose action is unset changes
\* nothing of the machine (PC, SP, a0, the signal table, running); with a
\* set action PC becomes the handler, SP becomes the top of the altstack
\* only if the action has altstack set (and an altstack is configured), the
\* table is unchanged, and the machine is never stopped.
C19_KillEnters ==
    slast.op = "kill" =>
        LET b == slast.before
            sig == slast.arg.sig
        IN /\ ~sys.stopped
           /\ IF sig = 0 \/ is_unset(b.sigactions[sig])
              THEN sys = b
              ELSE LET act == b.sigactions[sig]
                   IN /\ sys.pc = act.handler
                      /\ sys.sp = (IF act.altstack /\ b.altstack.ss_size > 0
                                   THEN b.altstack.ss_sp + b.altstack.ss_size
                                   ELSE b.sp)
                      /\ sys.sigactions = b.sigactions
                      /\ sys.a0 = b.a0

\* A signal whose action has altstack set was sent with an altstack
\* configured: the handler runs on the altstack.
C19_Witness ==
    /\ slast.op = "kill" /\ slast.arg.sig # 0
    /\ slast.before.sigactions[slast.arg.sig].altstack
    /\ slast.before.sp = 512
    /\ sys.pc = 9024 /\ sys.sp = 1280 /\ ~sys.stopped

\* The ELF loader.
SpecElf == InitElfMemory /\ [][NextElf]_vars

\* The greatest number of a set of numbers, 0 for none.
MaxOf(S) == IF S = {} THEN 0 ELSE CHOOSE e \in S : \A f \in S : e >= f

\* C20: after binary_loader succeeded (in the constructor or in reset), the
\* p_filesz bytes of every PT_LOAD segment are in the guest at p_vaddr, the
\* pages the segment covers carry its PF_R, PF_W, PF_X when protect_segments
\* is set and read, write, exec otherwise, start_address is e_entry and
\* elf_end_vaddr is the greatest p_vaddr + p_filesz of the segments loaded.
C20_ElfLoaded ==
    (mem.alive /\ m_binary # << >> /\ mlast.op \in {"none", "reset"} /\ mlast.exc = "none") =>
        LET phdrs == Tail(m_binary)
            loads == { i \in 1..Len(phdrs) : phdrs[i].p_type = "PT_LOAD" }
        IN /\ \A i \in loads :
                 LET hdr == phdrs[i]
                 IN /\ \A k \in 0..(hdr.p_filesz - 1) :
                          /\ hdr.p_vaddr + k \in DOMAIN mem.data
                          /\ mem.data[hdr.p_vaddr + k] = FileByte(hdr.p_offset + k)
                    /\ \A pg \in PagesOf(hdr.p_vaddr, hdr.p_filesz) :
                          LET attr == AttrOf(mem, get_pageno(mem, pg))
                          IN IF mem.m_protect_segments
                             THEN /\ attr.read = hdr.PF_R
                                  /\ attr.write = hdr.PF_W
                                  /\ attr.exec = hdr.PF_X
                             ELSE attr.read /\ attr.write /\ attr.exec
           /\ mem.m_start_address = Head(m_binary).e_entry
           /\ mem.m_elf_end_vaddr
                = MaxOf({ phdrs[i].p_vaddr + phdrs[i].p_filesz : i \in loads })

(* ------------------------------------------------------------------ *)
(* Claims about symbols, descriptors, threads and the fd table           *)
(* ------------------------------------------------------------------ *)

\* Memory::lookup on every symbol table.
SpecLookup == InitLookupMemory /\ [][NextLookup]_vars

\* The function symbols of a table.
Funcs(symtab) == { i \in DOMAIN symtab : symtab[i].st_type = "STT_FUNC" }

\* C21: lookup(address) for address # 0 returns a function symbol whose
\* range holds address when there is one, otherwise the function symbol
\* with the greatest st_value below address whatever the order of the
\* table, with offset = address - st_value; the result is empty for
\* address 0, without .symtab or .strtab, or when no function precedes.
C21_LookupClosest ==
    LET t == look.elf.symtab
        a == look.address
        inside == { i \in Funcs(t) : a >= t[i].st_value /\ a < t[i].st_value + t[i].st_size }
        below == { i \in Funcs(t) : t[i].st_value < a }
    IN IF a = 0 \/ ~({".symtab", ".strtab"} \subseteq look.elf.sections)
       THEN look.ret = NoCallsite
       ELSE IF inside # {}
       THEN \E i \in inside : /\ look.ret.address = t[i].st_value
                              /\ look.ret.offset = a - t[i].st_value
       ELSE IF below # {}
       THEN /\ \A i \in below : look.ret.address >= t[i].st_value
            /\ \E i \in below : look.ret.address = t[i].st_value
            /\ look.ret.offset = a - look.ret.address
       ELSE look.ret = NoCallsite

\* A process builds caches and loads files that it did not write.
SpecLoad == InitCaches /\ [][NextLoad]_vars

\* C22: every descriptor of a cache, built or loaded from a file that the
\* loader accepted, has instruction_count() >= 1 and
\* block_bytes() <= PageSize.
C22_BlockBounds ==
    \A p \in DOMAIN caches : \A i \in 1..SIZE :
        /\ instruction_count(caches[p][i]) >= 1
        /\ block_bytes(caches[p][i]) <= PageSize

\* C25: for n >= 1 caches and every state of inst_handler_mapping,
\* serialize_whole_decoder_cache writes the n*SIZE*8 descriptor bytes, then
\* one byte H, the number of mapping entries with a non-zero index, then H
\* items of 8 bytes: n*SIZE*8 + 1 + 8*H bytes in all.
C25_RawLayout ==
    (last.op = "ser_raw" /\ last.n >= 1) =>
        LET H == Cardinality((DOMAIN inst_handler_mapping) \ {0})
            size == last.n * SIZE * DescSize
        IN /\ last.ok
           /\ file.kind = "raw"
           /\ Len(file.bytes) = size + 1 + ItemSize * H
           /\ file.bytes[size + 1] = H

\* C26: pages_highest is at least pages_active in every state and never
\* decreases, whatever sequence of allocate_page, install_shared_page,
\* clear_all_pages and reset is run.
C26_HighestTracksActive ==
    /\ [](mem.m_pages_highest >= pages_active(mem))
    /\ [][mem'.m_pages_highest >= mem.m_pages_highest]_vars

\* C27: the raw loader reads only offsets below L of its input and binds
\* only the entries 1..255 of instr_handlers; an input whose handler table
\* needs bytes beyond L, or names the index 0 or an index >= 256, is refused.
C27_RawLoaderBounds ==
    (last.op = "de_raw" /\ last.kind = "raw") =>
        LET required == last.n * SIZE * DescSize + 1
            handler_c == file.bytes[required]
            indices == { ReadLE32(file.bytes, required + (k - 1) * ItemSize) : k \in 1..handler_c }
        IN /\ last.ok => required + handler_c * ItemSize <= last.L
           /\ last.ok => indices \subseteq 1..(HandlerSlots - 1)
           /\ DOMAIN instr_handlers \subseteq 1..(HandlerSlots - 1)

\* C28: on a vfd other than 1 and 2 for which permit_write(vfd) is false,
\* write and writev (with a count in range) return -EBADF, and the host's
\* writev is not called.
C28_WriteNeedsPermit ==
    (slast.op \in {"write", "writev"} /\ slast.arg.vfd \notin {1, 2} /\ ~slast.arg.pw) =>
        /\ slast.calls = << >>
        /\ (slast.op = "writev" /\ (slast.arg.count < 0 \/ slast.arg.count > WritevMax))
              \/ sys.a0 = 0 - EBADF

\* The system calls that take a path, on machines set up in every way.
SpecPath == InitMachine /\ [][NextPath]_vars

\* C29: without a FileDescriptors table, or with permit_filesystem false,
\* openat, faccessat, fstatat, readlinkat and statx all return an error and
\* make no host call.
C29_PathsNeedPermit ==
    (/\ slast.op \in {"openat", "faccessat", "fstatat", "readlinkat", "statx"}
     /\ (~slast.before.has_fds \/ ~slast.before.permit_filesystem)) =>
        /\ sys.a0 < 0
        /\ ~slast.host_called

\* The system calls that hand out descriptors and give them up.
SpecDesc == InitMachine /\ [][NextDesc]_vars

\* C30: every descriptor value that openat, pipe2 or dup returns on success
\* is a vfd of the translation table that names the host descriptor just
\* opened, and once the table is destroyed no host descriptor that the
\* guest opened is left open.
C30_EveryDescriptorTabled ==
    LET b == slast.before
        fresh == sys.host_open \ b.host_open
    IN /\ (slast.op \in {"openat", "dup"} /\ sys.a0 >= 0) =>
              /\ sys.a0 \in DOMAIN sys.translation
              /\ sys.a0 \notin DOMAIN b.translation
              /\ fresh = { sys.translation[sys.a0] }
       /\ (slast.op = "pipe2" /\ sys.a0 = 0) =>
              /\ Len(slast.copied) = 2
              /\ slast.copied[1] # slast.copied[2]
              /\ \A k \in 1..2 : /\ slast.copied[k] \in DOMAIN sys.translation
                                 /\ slast.copied[k] \notin DOMAIN b.translation
              /\ fresh = { sys.translation[slast.copied[k]] : k \in 1..2 }
              /\ Cardinality(fresh) = 2
       /\ slast.op = "destroy" => sys.host_open \subseteq StdFds

\* A descriptor is patched while it is dispatched.
SpecPatch == InitPatched /\ [][NextPatch]_vars

\* C23: a thread that reads get_bytecode() and get_handler() while
\* set_atomic_bytecode_and_handler(b, h) runs sees the pair of before the
\* call or the pair (b, h), never a mix, and bytes 2..7 of the descriptor
\* stay as they were.
C23_PatchAtomic ==
    /\ (patch.rb # Unread /\ patch.rh # Unread) =>
           << patch.rb, patch.rh >> \in
               { PairOf(patch.before), << patch.bytecode, patch.handler_idx >> }
    /\ patch.d.idxend = patch.before.idxend
    /\ patch.d.icount = patch.before.icount
    /\ patch.d.instr = patch.before.instr

\* Two threads call set_handler at once, in a process with a fresh registry.
SpecThreads == InitThreads /\ [][NextThreads]_vars

====
